---------------------------- MODULE Spec2Model ----------------------------
(***************************************************************************)
(* Order checkout / authorization / settlement service (src/server.js)     *)
(* over the SQLite schema of src/init-sqlite.sql.                          *)
(*                                                                         *)
(* The three tables are sequences of rows in rowid order.  Every request   *)
(* is a chain of database calls; each call runs atomically in the single   *)
(* SQLite connection and its callback issues the next call, so the calls   *)
(* of different requests interleave.  A step of the model is the           *)
(* synchronous part of a handler, or one database call together with the   *)
(* callback that receives its result.                                      *)
(*                                                                         *)
(* Amounts are integers (hundredths, for stored rows and request bodies    *)
(* alike); CURRENT_TIMESTAMP is the clock `now` with the one-second        *)
(* resolution SQLite gives it.                                             *)
(*                                                                         *)
(* `up` says that the server process is running (an uncaught exception     *)
(* ends it) and `foreignKeys` that its connection enforces foreign keys    *)
(* (only the process that created the database file runs the PRAGMA).      *)
(***************************************************************************)
EXTENDS Integers, Sequences, FiniteSets, TLC

VARIABLES orders, authorizations, settlements, customers, now, req, nreq, hist,
          up, foreignKeys

vars == <<orders, authorizations, settlements, customers, now, req, nreq, hist,
          up, foreignKeys>>

---------------------------------------------------------------------------
(* Bounds of the model                                                     *)

MaxTime == 1
MaxRequests == 2
MaxSeqRequests == 2
MaxLifeRequests == 4
MaxSeedRequests == 4
MaxInputRequests == 2
MaxAmount == 2
MaxDrawRequests == 1
MaxReadRequests == 2
MaxRegisterRequests == 2
MaxFairRequests == 2
MaxOverlapRequests == 2
MaxAccountRequests == 3

Procs == {1, 2}

---------------------------------------------------------------------------
(* JSON values of a request body, and the JavaScript coercions on them     *)

JNull == [null |-> TRUE]
JStr(s) == [str |-> s]
JNum(n) == [num |-> n]
JBool(b) == [bool |-> b]

IsNull(x) == "null" \in DOMAIN x

\* a variant that takes only null for missing (for sensitivity checks)
OnlyNull(x) == IsNull(x)

\* !x : null/undefined, "", 0 and false are falsy
Falsy(x) ==
  \/ "null" \in DOMAIN x
  \/ "str" \in DOMAIN x /\ x.str = ""
  \/ "num" \in DOMAIN x /\ x.num = 0
  \/ "bool" \in DOMAIN x /\ x.bool = FALSE

NaN == [nan |-> TRUE]
Infinity == [inf |-> TRUE]

\* amounts are counted in hundredths (JNum(1) is 0.01, the seed row 75.50 is
\* 7550), so the number 1 is JNum(100)
StringToNumber(s) ==
  CASE s = "" -> JNum(0)
    [] s = "0" -> JNum(0)
    [] s = "1" -> JNum(100)
    [] s = "2" -> JNum(200)
    [] s = "3" -> JNum(300)
    [] s = "-1" -> JNum(0 - 100)
    [] s = "Infinity" -> Infinity
    [] OTHER -> NaN

\* Number(x): Number(true) is 1, Number(false) and Number(null) are 0
Number(x) ==
  IF "num" \in DOMAIN x THEN x
  ELSE IF "inf" \in DOMAIN x THEN Infinity
  ELSE IF "str" \in DOMAIN x THEN StringToNumber(x.str)
  ELSE IF "bool" \in DOMAIN x THEN (IF x.bool THEN JNum(100) ELSE JNum(0))
  ELSE IF "null" \in DOMAIN x THEN JNum(0)
  ELSE NaN

\* Number.isFinite(n)
IsFinite(n) == "num" \in DOMAIN n

\* a variant that accepts an amount of 0 (for sensitivity checks)
NegativeAmount(n) == ~IsFinite(n) \/ n.num < 0

\* !Number.isFinite(numericAmount) || numericAmount <= 0
InvalidAmount(n) == ~IsFinite(n) \/ n.num <= 0

---------------------------------------------------------------------------
(* Rows and queries                                                        *)

NoRow == [null |-> TRUE]

Customers == {1, 2, 3}

\* SQL NULL in a text column of customers
NoText == [null |-> TRUE]

\* the seed customers have no login fields
SeedCustomers ==
  [i \in 1..Cardinality(Customers) |->
     [customer_id |-> i,
      full_name |-> <<"Alice Johnson", "Bob Smith", "Carol Lee">>[i],
      address_line1 |-> <<JStr("123 Main St"), JStr("456 Oak Ave"),
                          JStr("789 Pine Rd")>>[i],
      address_line2 |-> <<JStr("Apt 4B"), NoText, JStr("Unit 12")>>[i],
      city |-> <<JStr("Atlanta"), JStr("Marietta"), JStr("Kennesaw")>>[i],
      state |-> JStr("GA"),
      zip_code |-> <<JStr("30301"), JStr("30060"), JStr("30144")>>[i],
      email |-> NoText, username |-> NoText, password_hash |-> NoText,
      is_verified |-> 0, verify_token |-> NoText]]

SeedOrders ==
  << [order_id |-> "ORD1001", customer_id |-> 1, status |-> "PENDING",
      total_amount |-> 7550, created_at |-> 0, updated_at |-> 0],
     [order_id |-> "ORD1002", customer_id |-> 1, status |-> "AUTHORIZED",
      total_amount |-> 4999, created_at |-> 0, updated_at |-> 0],
     [order_id |-> "ORD1003", customer_id |-> 2, status |-> "DECLINED",
      total_amount |-> 12000, created_at |-> 0, updated_at |-> 0],
     [order_id |-> "ORD1004", customer_id |-> 3, status |-> "SETTLED",
      total_amount |-> 20000, created_at |-> 0, updated_at |-> 0] >>

\* SQL NULL in auth_token / auth_expires_at
NoToken == [null |-> TRUE]
NoExpiry == 0 - 1

SeedAuthorizations ==
  << [order_id |-> "ORD1002", outcome |-> "SUCCESS", gateway_code |-> "00",
      gateway_message |-> "Approved", amount |-> 4999,
      auth_token |-> NoToken, auth_expires_at |-> NoExpiry, created_at |-> 0],
     [order_id |-> "ORD1003", outcome |-> "DECLINED", gateway_code |-> "05",
      gateway_message |-> "Do not honor", amount |-> 12000,
      auth_token |-> NoToken, auth_expires_at |-> NoExpiry, created_at |-> 0],
     [order_id |-> "ORD1004", outcome |-> "SUCCESS", gateway_code |-> "00",
      gateway_message |-> "Approved", amount |-> 20000,
      auth_token |-> NoToken, auth_expires_at |-> NoExpiry, created_at |-> 0] >>

SeedSettlements ==
  << [order_id |-> "ORD1004", amount |-> 20000, settled_at |-> 0] >>

\* rowids of the rows of table t that belong to order id
RowsOf(t, id) == {i \in 1..Len(t) : t[i].order_id = id}

\* a variant that ignores the WHERE clause (for sensitivity checks)
FirstOrder(os, id) == IF Len(os) = 0 THEN NoRow ELSE os[1]

\* SELECT ... FROM orders WHERE order_id = ?
SelectOrder(os, id) ==
  IF RowsOf(os, id) = {} THEN NoRow
  ELSE os[CHOOSE i \in RowsOf(os, id) : \A j \in RowsOf(os, id) : i <= j]

\* SELECT ... WHERE order_id = ? ORDER BY <col> DESC LIMIT 1 : the greatest
\* timestamp; among equal timestamps SQLite returns the row it scanned
\* first, the one with the least rowid.
SelectLatest(t, id, col) ==
  IF RowsOf(t, id) = {} THEN NoRow
  ELSE t[CHOOSE i \in RowsOf(t, id) :
           \A j \in RowsOf(t, id) :
              \/ t[j][col] < t[i][col]
              \/ t[j][col] = t[i][col] /\ i <= j]

\* variants of the upsert (for sensitivity checks): a plain INSERT that
\* ignores the conflict, and ON CONFLICT DO NOTHING
InsertOrder(os, id, cust, st, amt, t) ==
  Append(os, [order_id |-> id, customer_id |-> cust, status |-> st,
              total_amount |-> amt, created_at |-> t, updated_at |-> t])

InsertOrIgnoreOrder(os, id, cust, st, amt, t) ==
  IF RowsOf(os, id) = {} THEN InsertOrder(os, id, cust, st, amt, t) ELSE os

\* further variants (for sensitivity checks): INSERT OR REPLACE, which
\* deletes the old row and inserts a new one, and an upsert that also
\* resets created_at
ReplaceOrder(os, id, cust, st, amt, t) ==
  InsertOrder(SelectSeq(os, LAMBDA r : r.order_id # id), id, cust, st, amt, t)

UpsertResettingCreated(os, id, cust, st, amt, t) ==
  IF RowsOf(os, id) = {} THEN InsertOrder(os, id, cust, st, amt, t)
  ELSE [i \in 1..Len(os) |->
          IF os[i].order_id = id
          THEN [os[i] EXCEPT !.customer_id = cust, !.status = st,
                             !.total_amount = amt, !.created_at = t,
                             !.updated_at = t]
          ELSE os[i]]

\* INSERT INTO orders ... ON CONFLICT(order_id) DO UPDATE SET customer_id,
\* status, total_amount, updated_at
UpsertOrder(os, id, cust, st, amt, t) ==
  IF RowsOf(os, id) = {}
  THEN Append(os, [order_id |-> id, customer_id |-> cust, status |-> st,
                   total_amount |-> amt, created_at |-> t, updated_at |-> t])
  ELSE [i \in 1..Len(os) |->
          IF os[i].order_id = id
          THEN [os[i] EXCEPT !.customer_id = cust, !.status = st,
                             !.total_amount = amt, !.updated_at = t]
          ELSE os[i]]

\* FOREIGN KEY (customer_id) REFERENCES customers(customer_id), enforced
\* only on a connection that ran the schema script with its
\* PRAGMA foreign_keys = ON, that is in the process that created the file
ForeignKeyOk(cust) ==
  \/ ~foreignKeys
  \/ \E i \in 1..Len(customers) : customers[i].customer_id = cust

\* UPDATE orders SET status = 'SETTLED', updated_at = CURRENT_TIMESTAMP
\* WHERE order_id = ?
UpdateSettled(os, id, t) ==
  [i \in 1..Len(os) |->
     IF os[i].order_id = id
     THEN [os[i] EXCEPT !.status = "SETTLED", !.updated_at = t]
     ELSE os[i]]

CountRows(t, id) == Cardinality(RowsOf(t, id))

\* a variant without ORDER BY (for sensitivity checks)
PlaceByRowid(os, i) == i

\* a variant for ORDER BY updated_at DESC (for sensitivity checks)
PlaceLastUpdatedFirst(os, i) ==
  1 + Cardinality({j \in 1..Len(os) :
                     \/ os[j].updated_at > os[i].updated_at
                     \/ os[j].updated_at = os[i].updated_at /\ j < i})

\* the place of row i under ORDER BY created_at DESC: the rows created
\* later come first, and rows of equal created_at keep their rowid order
\* (SQLite's sorter is stable over its scan in rowid order)
PlaceNewestFirst(os, i) ==
  1 + Cardinality({j \in 1..Len(os) :
                     \/ os[j].created_at > os[i].created_at
                     \/ os[j].created_at = os[i].created_at /\ j < i})

\* SELECT * FROM orders ORDER BY created_at DESC
NewestFirst(os) ==
  [k \in 1..Len(os) |->
     os[CHOOSE i \in 1..Len(os) : PlaceNewestFirst(os, i) = k]]

\* LIMIT ? OFFSET ? : a negative LIMIT is no limit, a negative OFFSET is 0
LimitOffset(rows, limit, offset) ==
  LET skip == IF offset < 0 THEN 0 ELSE offset
      last == IF limit < 0 \/ skip + limit > Len(rows) THEN Len(rows)
              ELSE skip + limit
  IN SubSeq(rows, skip + 1, last)

\* SELECT status, COUNT(*) AS count FROM orders GROUP BY status, as the
\* object rows1.forEach builds: one key per status that has a row
GroupByStatus(os) ==
  [s \in {os[i].status : i \in 1..Len(os)} |->
     Cardinality({i \in 1..Len(os) : os[i].status = s})]

\* out.totals.ALL = ...
WithKey(f, k, v) == [x \in DOMAIN f \cup {k} |-> IF x = k THEN v ELSE f[x]]

\* SELECT IFNULL(SUM(amount), 0) FROM settlements
RECURSIVE SumAmounts(_)
SumAmounts(t) ==
  IF Len(t) = 0 THEN 0 ELSE t[1].amount + SumAmounts(Tail(t))

DefaultLimit == 200
RecentLimit == 5

\* parseInt(s, 10) of a query parameter (null: the parameter is absent)
ParseInt(x) ==
  IF IsNull(x) THEN NaN
  ELSE CASE x.str = "0" -> JNum(0)
         [] x.str = "1" -> JNum(1)
         [] x.str = "2" -> JNum(2)
         [] x.str = "3" -> JNum(3)
         [] x.str = "5" -> JNum(5)
         [] x.str = "-1" -> JNum(0 - 1)
         [] x.str = "2abc" -> JNum(2)
         [] OTHER -> NaN

\* n || d : NaN and 0 are falsy
OrElse(n, d) == IF "nan" \in DOMAIN n \/ n.num = 0 THEN d ELSE n.num

---------------------------------------------------------------------------
(* Pure helpers of src/server.js                                           *)

\* a variant with the first threshold off by one (for sensitivity checks)
pickAuthOutcomeInclusive(r) ==
  IF r <= 60 THEN "SUCCESS"
  ELSE IF r < 77 THEN "INSUFFICIENT_FUNDS"
  ELSE IF r < 94 THEN "INCORRECT_DETAILS"
  ELSE "SERVER_ERROR"

\* Math.random() in hundredths: r in 0..99
pickAuthOutcomeWeighted(r) ==
  IF r < 60 THEN "SUCCESS"
  ELSE IF r < 77 THEN "INSUFFICIENT_FUNDS"
  ELSE IF r < 94 THEN "INCORRECT_DETAILS"
  ELSE "SERVER_ERROR"

\* a variant whose default status is PENDING (for sensitivity checks)
orderStatusPending(detailedResult) ==
  IF detailedResult = "SUCCESS" THEN "AUTHORIZED"
  ELSE IF detailedResult = "INSUFFICIENT_FUNDS" THEN "DECLINED"
  ELSE "PENDING"

orderStatus(detailedResult) ==
  IF detailedResult = "SUCCESS" THEN "AUTHORIZED"
  ELSE IF detailedResult = "INSUFFICIENT_FUNDS" \/ detailedResult = "INCORRECT_DETAILS"
       THEN "DECLINED"
       ELSE "ERROR"

authOutcome(status) ==
  IF status = "AUTHORIZED" THEN "SUCCESS"
  ELSE IF status = "DECLINED" THEN "DECLINED"
  ELSE "ERROR"

\* a variant without the case INCORRECT_DETAILS (for sensitivity checks)
gatewayCodeDefault(detailedResult) ==
  CASE detailedResult = "SUCCESS" -> "00"
    [] detailedResult = "INSUFFICIENT_FUNDS" -> "51"
    [] OTHER -> "XX"

gatewayCode(detailedResult) ==
  CASE detailedResult = "SUCCESS" -> "00"
    [] detailedResult = "INSUFFICIENT_FUNDS" -> "51"
    [] detailedResult = "INCORRECT_DETAILS" -> "14"
    [] OTHER -> "XX"

gatewayMessage(detailedResult) ==
  CASE detailedResult = "SUCCESS" -> "Approved"
    [] detailedResult = "INSUFFICIENT_FUNDS" -> "Insufficient funds"
    [] detailedResult = "INCORRECT_DETAILS" -> "Incorrect card details"
    [] OTHER -> "Authorization server error"

\* expires.setDate(expires.getDate() + 7), in seconds
SevenDays == 604800

\* setDate adds seven days of the local calendar: when the clocks of the
\* process's time zone change within them the expiry differs from 7 x 24
\* hours by the shift of the zone: half an hour (Australia/Lord_Howe), an
\* hour (most zones) or two hours (Antarctica/Troll), later or earlier
ClockChanges == {0 - 7200, 0 - 3600, 0 - 1800, 0, 1800, 3600, 7200}

\* token = `${orderId}_${randomPart}`, expiry = now + 7 local days
generateAuthToken(orderId, randomPart, t, change) ==
  [token |-> [order |-> orderId, rnd |-> randomPart],
   expiresAt |-> t + SevenDays + change]

RandomParts == {"a1", "b2"}

sampleOrders ==
  << <<"ORD9001", 1, "AUTHORIZED", 4550>>,
     <<"ORD9002", 2, "DECLINED", 7820>>,
     <<"ORD9003", 3, "SETTLED", 2399>>,
     <<"ORD9004", 4, "ERROR", 5177>>,
     <<"ORD9005", 1, "AUTHORIZED", 6740>>,
     <<"ORD9006", 2, "AUTHORIZED", 1599>>,
     <<"ORD9007", 3, "DECLINED", 9010>>,
     <<"ORD9008", 4, "AUTHORIZED", 1230>>,
     <<"ORD9009", 1, "ERROR", 12000>>,
     <<"ORD9010", 2, "AUTHORIZED", 4444>> >>

---------------------------------------------------------------------------
(* Requests in flight                                                      *)

NoResp == [code |-> 0]

Snapshot == [orders |-> orders, authorizations |-> authorizations,
             settlements |-> settlements, customers |-> customers]

NoSnapshot == [orders |-> <<>>, authorizations |-> <<>>, settlements |-> <<>>,
               customers |-> <<>>]

NoBody == [none |-> TRUE]

\* no outcome drawn yet
NoDraw == 0 - 1

\* the response object GET /stats starts from
EmptyStats == [totals |-> <<>>, recentOrders |-> <<>>, settled_total |-> 0]

IdleReq ==
  [kind |-> "none", pc |-> "idle", orderId |-> "", customerId |-> 0,
   amount |-> 0, result |-> "", total |-> 0, token |-> NoToken,
   expiresAt |-> NoExpiry, i |-> 0, order |-> NoRow, auth |-> NoRow,
   resp |-> NoResp, body |-> NoBody, pre |-> NoSnapshot, draw |-> NoDraw,
   out |-> EmptyStats, limit |-> 0, offset |-> 0, reg |-> NoBody]

Init ==
  /\ orders = SeedOrders
  /\ authorizations = SeedAuthorizations
  /\ settlements = SeedSettlements
  /\ customers = SeedCustomers
  /\ now = 0
  /\ req = [p \in Procs |-> IdleReq]
  /\ nreq = 0
  /\ hist = <<>>
  /\ up = TRUE
  /\ foreignKeys = TRUE

\* a later start of the server: the database file exists and holds the
\* rows of the schema script, which is not run again, so nothing sets
\* PRAGMA foreign_keys on this connection
InitExisting ==
  /\ orders = SeedOrders
  /\ authorizations = SeedAuthorizations
  /\ settlements = SeedSettlements
  /\ customers = SeedCustomers
  /\ now = 0
  /\ req = [p \in Procs |-> IdleReq]
  /\ nreq = 0
  /\ hist = <<>>
  /\ up = TRUE
  /\ foreignKeys = FALSE

\* the process is running and stays on its connection
Serving == up /\ UNCHANGED <<up, foreignKeys>>

\* a free slot takes the next request
Accept(p, limit) ==
  /\ req[p].pc \in {"idle", "done"}
  /\ nreq < limit
  /\ nreq' = nreq + 1

Reply(p, r) == [req EXCEPT ![p].pc = "done", ![p].resp = r]

DbUnchanged == UNCHANGED <<orders, authorizations, settlements, customers>>

\* what the log of completed requests keeps of a request
Summary(q) ==
  [kind |-> q.kind, orderId |-> q.orderId, customerId |-> q.customerId,
   amount |-> q.amount, result |-> q.result, code |-> q.resp.code,
   reg |-> q.reg]

\* the request in slot p is logged in the step that completes it
Log(p) ==
  hist' = IF req'[p].pc = "done"
          THEN Append(hist, Summary(req'[p]))
          ELSE hist

\* CURRENT_TIMESTAMP advances
Tick ==
  /\ now < MaxTime
  /\ now' = now + 1
  /\ Serving
  /\ UNCHANGED <<orders, authorizations, settlements, customers, req, nreq, hist>>

---------------------------------------------------------------------------
(* POST /orders/checkout                                                   *)

\* the synchronous part of the handler: validation, the outcome draw and
\* the mappings; a valid request issues the orders upsert
CheckoutRequest(p, orderId, customerId, amount, r) ==
  /\ Serving
  /\ DbUnchanged /\ UNCHANGED now
  /\ LET q == [IdleReq EXCEPT !.kind = "checkout", !.pre = Snapshot,
                  !.body = [orderId |-> orderId, customerId |-> customerId,
                            amount |-> amount]] IN
     IF Falsy(orderId) \/ Falsy(customerId) \/ IsNull(amount)
     THEN req' = [req EXCEPT ![p] = [q EXCEPT !.pc = "done",
                     !.resp = [code |-> 400, error |-> "Missing fields"]]]
     ELSE IF InvalidAmount(Number(amount))
     THEN req' = [req EXCEPT ![p] = [q EXCEPT !.pc = "done",
                     !.resp = [code |-> 400, error |-> "Invalid amount"]]]
     ELSE req' = [req EXCEPT ![p] = [q EXCEPT !.pc = "co_upsert",
                     !.orderId = orderId.str, !.customerId = customerId.num,
                     !.amount = Number(amount).num,
                     !.draw = r, !.result = pickAuthOutcomeWeighted(r)]]
  /\ Log(p)

\* a variant whose callback ignores orderErr (for sensitivity checks)
CheckoutUpsertIgnoringError(p, ok) ==
  /\ req[p].pc = "co_upsert"
  /\ Serving
  /\ UNCHANGED <<authorizations, settlements, now, nreq, customers>>
  /\ orders' = IF ok /\ ForeignKeyOk(req[p].customerId)
               THEN UpsertOrder(orders, req[p].orderId, req[p].customerId,
                                orderStatus(req[p].result), req[p].amount, now)
               ELSE orders
  /\ req' = [req EXCEPT ![p].pc = "co_auth"]
  /\ hist' = hist

\* db.run(INSERT INTO orders ... ON CONFLICT DO UPDATE) and its callback
CheckoutUpsertOrder(p, ok) ==
  /\ req[p].pc = "co_upsert"
  /\ Serving
  /\ UNCHANGED <<authorizations, settlements, now, nreq, customers>>
  /\ IF ok /\ ForeignKeyOk(req[p].customerId)
     THEN /\ orders' = UpsertOrder(orders, req[p].orderId, req[p].customerId,
                                   orderStatus(req[p].result), req[p].amount, now)
          /\ req' = [req EXCEPT ![p].pc = "co_auth"]
     ELSE /\ orders' = orders
          /\ req' = Reply(p, [code |-> 500, error |-> "Database write error (orders)"])
  /\ Log(p)

\* a variant that issues a token on every attempt (for sensitivity checks)
CheckoutAuthRowWithToken(q, t) ==
  [order_id |-> q.orderId, outcome |-> authOutcome(orderStatus(q.result)),
   gateway_code |-> gatewayCode(q.result),
   gateway_message |-> gatewayMessage(q.result), amount |-> q.amount,
   auth_token |-> generateAuthToken(q.orderId, "a1", t, 0).token,
   auth_expires_at |-> generateAuthToken(q.orderId, "a1", t, 0).expiresAt,
   created_at |-> t]

\* the Authorization row of a checkout attempt
CheckoutAuthRow(q, t) ==
  [order_id |-> q.orderId, outcome |-> authOutcome(orderStatus(q.result)),
   gateway_code |-> gatewayCode(q.result),
   gateway_message |-> gatewayMessage(q.result), amount |-> q.amount,
   auth_token |-> NoToken, auth_expires_at |-> NoExpiry, created_at |-> t]

\* db.run(INSERT INTO authorizations ...) and its callback, which responds
CheckoutInsertAuth(p, ok) ==
  /\ req[p].pc = "co_auth"
  /\ Serving
  /\ UNCHANGED <<orders, settlements, now, nreq, customers>>
  /\ IF ok
     THEN /\ authorizations' = Append(authorizations, CheckoutAuthRow(req[p], now))
          /\ req' = Reply(p, [code |-> 200, orderId |-> req[p].orderId,
                              result |-> req[p].result,
                              status |-> orderStatus(req[p].result),
                              outcome |-> authOutcome(orderStatus(req[p].result))])
     ELSE /\ authorizations' = authorizations
          /\ req' = Reply(p, [code |-> 500,
                              error |-> "Database write error (authorizations)"])
  /\ Log(p)

---------------------------------------------------------------------------
(* POST /payments/settle                                                   *)

SettleRequest(p, orderId, amount) ==
  /\ Serving
  /\ DbUnchanged /\ UNCHANGED now
  /\ LET q == [IdleReq EXCEPT !.kind = "settle", !.pre = Snapshot,
                  !.body = [orderId |-> orderId, amount |-> amount]] IN
     IF Falsy(orderId) \/ IsNull(amount)
     THEN req' = [req EXCEPT ![p] = [q EXCEPT !.pc = "done",
                     !.resp = [code |-> 400, error |-> "Missing fields"]]]
     ELSE IF InvalidAmount(Number(amount))
     THEN req' = [req EXCEPT ![p] = [q EXCEPT !.pc = "done",
                     !.resp = [code |-> 400, error |-> "Invalid amount"]]]
     ELSE req' = [req EXCEPT ![p] = [q EXCEPT !.pc = "st_load",
                     !.orderId = orderId.str, !.amount = Number(amount).num]]
  /\ Log(p)

\* a settle request that carries no JSON body.  The handler destructures
\* req.body without the "|| {}" of checkout: where express.json() leaves
\* req.body an empty object (parsed) every field is undefined, where it
\* leaves req.body undefined the destructuring throws a TypeError before
\* any check and the framework's error handler answers 500
SettleRequestNoBody(p, parsed) ==
  IF parsed
  THEN SettleRequest(p, JNull, JNull)
  ELSE /\ Serving
       /\ DbUnchanged /\ UNCHANGED now
       /\ req' = [req EXCEPT ![p] = [IdleReq EXCEPT !.kind = "settle", !.pc = "done",
                      !.pre = Snapshot,
                      !.resp = [code |-> 500, error |-> "TypeError"]]]
       /\ Log(p)

\* looser status checks (for sensitivity checks)
NotSettled(order) == order.status # "SETTLED"

NotPending(order) == order.status # "PENDING"

\* order.status !== "AUTHORIZED" rejects the settlement
CanSettle(order) == order.status = "AUTHORIZED"

\* db.get(SELECT order_id, status, total_amount FROM orders ...) and its
\* callback: 404 / 400 or on to ensureAuthorizationForOrder
SettleLoadOrder(p, ok) ==
  /\ req[p].pc = "st_load"
  /\ Serving
  /\ DbUnchanged /\ UNCHANGED <<now, nreq>>
  /\ LET order == SelectOrder(orders, req[p].orderId) IN
     IF ~ok THEN req' = Reply(p, [code |-> 500, error |-> "storage"])
     ELSE IF order = NoRow
     THEN req' = Reply(p, [code |-> 404, error |-> "Order not found"])
     ELSE IF ~CanSettle(order)
     THEN req' = Reply(p, [code |-> 400, error |-> "Order not authorized, cannot settle"])
     ELSE req' = [req EXCEPT ![p].pc = "st_find_auth", ![p].order = order,
                             ![p].total = order.total_amount]
  /\ Log(p)

\* a variant that never finds the row (for sensitivity checks)
NeverFound(row) == FALSE

\* if (row): the order already has an authorization row
HasAuthorization(row) == row # NoRow

\* a variant whose callback drops the error without calling cb (for
\* sensitivity checks)
SettleFindAuthSilent(p, ok, randomPart, change) ==
  /\ req[p].pc = "st_find_auth"
  /\ Serving
  /\ DbUnchanged /\ UNCHANGED <<now, nreq>>
  /\ LET row == SelectLatest(authorizations, req[p].orderId, "created_at")
         gen == generateAuthToken(req[p].orderId, randomPart, now, change) IN
     IF ~ok THEN req' = [req EXCEPT ![p].pc = "st_lost"]
     ELSE IF row # NoRow
     THEN req' = [req EXCEPT ![p].pc = "st_insert"]
     ELSE req' = [req EXCEPT ![p].pc = "st_backfill", ![p].token = gen.token,
                             ![p].expiresAt = gen.expiresAt]
  /\ Log(p)

\* ensureAuthorizationForOrder: db.get(SELECT auth_id ... LIMIT 1) and its
\* callback, which either goes on to the settlement insert or draws a token
\* and issues the backfill insert
SettleFindAuth(p, ok, randomPart, change) ==
  /\ req[p].pc = "st_find_auth"
  /\ Serving
  /\ DbUnchanged /\ UNCHANGED <<now, nreq>>
  /\ LET row == SelectLatest(authorizations, req[p].orderId, "created_at")
         gen == generateAuthToken(req[p].orderId, randomPart, now, change) IN
     IF ~ok THEN req' = Reply(p, [code |-> 500, error |-> "storage"])
     ELSE IF HasAuthorization(row)
     THEN req' = [req EXCEPT ![p].pc = "st_insert"]
     ELSE req' = [req EXCEPT ![p].pc = "st_backfill", ![p].token = gen.token,
                             ![p].expiresAt = gen.expiresAt]
  /\ Log(p)

\* a variant that stores the token without its expiry (for sensitivity
\* checks)
BackfillAuthRowNoExpiry(q, t) ==
  [order_id |-> q.orderId, outcome |-> "SUCCESS", gateway_code |-> "00",
   gateway_message |-> "Approved for settlement", amount |-> q.total,
   auth_token |-> q.token, auth_expires_at |-> NoExpiry, created_at |-> t]

\* the backfilled Authorization row
BackfillAuthRow(q, t) ==
  [order_id |-> q.orderId, outcome |-> "SUCCESS", gateway_code |-> "00",
   gateway_message |-> "Approved for settlement", amount |-> q.total,
   auth_token |-> q.token, auth_expires_at |-> q.expiresAt, created_at |-> t]

\* ensureAuthorizationForOrder: db.run(INSERT INTO authorizations ...)
SettleBackfillAuth(p, ok) ==
  /\ req[p].pc = "st_backfill"
  /\ Serving
  /\ UNCHANGED <<orders, settlements, now, nreq, customers>>
  /\ IF ok
     THEN /\ authorizations' = Append(authorizations, BackfillAuthRow(req[p], now))
          /\ req' = [req EXCEPT ![p].pc = "st_insert"]
     ELSE /\ authorizations' = authorizations
          /\ req' = Reply(p, [code |-> 500, error |-> "storage"])
  /\ Log(p)

\* a variant that settles the order's total (for sensitivity checks)
SettleInsertTotal(p, ok) ==
  /\ req[p].pc = "st_insert"
  /\ Serving
  /\ UNCHANGED <<orders, authorizations, now, nreq, customers>>
  /\ IF ok
     THEN /\ settlements' = Append(settlements,
               [order_id |-> req[p].orderId, amount |-> req[p].total,
                settled_at |-> now])
          /\ req' = [req EXCEPT ![p].pc = "st_update"]
     ELSE /\ settlements' = settlements
          /\ req' = Reply(p, [code |-> 500, error |-> "storage"])
  /\ Log(p)

\* db.run(INSERT INTO settlements (order_id, amount) ...)
SettleInsertSettlement(p, ok) ==
  /\ req[p].pc = "st_insert"
  /\ Serving
  /\ UNCHANGED <<orders, authorizations, now, nreq, customers>>
  /\ IF ok
     THEN /\ settlements' = Append(settlements,
               [order_id |-> req[p].orderId, amount |-> req[p].amount,
                settled_at |-> now])
          /\ req' = [req EXCEPT ![p].pc = "st_update"]
     ELSE /\ settlements' = settlements
          /\ req' = Reply(p, [code |-> 500, error |-> "storage"])
  /\ Log(p)

\* db.run(UPDATE orders SET status = 'SETTLED' ...) and its callback
SettleUpdateStatus(p, ok) ==
  /\ req[p].pc = "st_update"
  /\ Serving
  /\ UNCHANGED <<authorizations, settlements, now, nreq, customers>>
  /\ IF ok
     THEN /\ orders' = UpdateSettled(orders, req[p].orderId, now)
          /\ req' = Reply(p, [code |-> 200, orderId |-> req[p].orderId,
                              paymentStatus |-> "SETTLED"])
     ELSE /\ orders' = orders
          /\ req' = Reply(p, [code |-> 500, error |-> "storage"])
  /\ Log(p)

---------------------------------------------------------------------------
(* GET /orders/:id                                                         *)

GetOrderRequest(p, id) ==
  /\ Serving
  /\ DbUnchanged /\ UNCHANGED now
  /\ req' = [req EXCEPT ![p] = [IdleReq EXCEPT !.kind = "getOrder", !.pc = "go_order",
                                               !.orderId = id, !.pre = Snapshot]]
  /\ Log(p)

\* a variant that creates the order it does not find (for sensitivity
\* checks)
GetOrderLoadCreating(p, ok) ==
  /\ req[p].pc = "go_order"
  /\ Serving
  /\ UNCHANGED <<authorizations, settlements, now, nreq, customers>>
  /\ LET order == SelectOrder(orders, req[p].orderId) IN
     IF ~ok
     THEN /\ orders' = orders
          /\ req' = Reply(p, [code |-> 500, error |-> "storage"])
     ELSE IF order = NoRow
     THEN /\ orders' = InsertOrder(orders, req[p].orderId, 1, "PENDING", 0, now)
          /\ req' = Reply(p, [code |-> 404, error |-> "Order not found"])
     ELSE /\ orders' = orders
          /\ req' = [req EXCEPT ![p].pc = "go_auth", ![p].order = order]
  /\ Log(p)

\* db.get(SELECT * FROM orders WHERE order_id = ?)
GetOrderLoad(p, ok) ==
  /\ req[p].pc = "go_order"
  /\ Serving
  /\ DbUnchanged /\ UNCHANGED <<now, nreq>>
  /\ LET order == SelectOrder(orders, req[p].orderId) IN
     IF ~ok THEN req' = Reply(p, [code |-> 500, error |-> "storage"])
     ELSE IF order = NoRow
     THEN req' = Reply(p, [code |-> 404, error |-> "Order not found"])
     ELSE req' = [req EXCEPT ![p].pc = "go_auth", ![p].order = order]
  /\ Log(p)

\* db.get(SELECT * FROM authorizations ... ORDER BY created_at DESC LIMIT 1)
GetOrderLastAuth(p, ok) ==
  /\ req[p].pc = "go_auth"
  /\ Serving
  /\ DbUnchanged /\ UNCHANGED <<now, nreq>>
  /\ IF ~ok THEN req' = Reply(p, [code |-> 500, error |-> "storage"])
     ELSE req' = [req EXCEPT ![p].pc = "go_settle",
                    ![p].auth = SelectLatest(authorizations, req[p].orderId, "created_at")]
  /\ Log(p)

\* db.get(SELECT * FROM settlements ... ORDER BY settled_at DESC LIMIT 1)
\* and the response
GetOrderLastSettlement(p, ok) ==
  /\ req[p].pc = "go_settle"
  /\ Serving
  /\ DbUnchanged /\ UNCHANGED <<now, nreq>>
  /\ IF ~ok THEN req' = Reply(p, [code |-> 500, error |-> "storage"])
     ELSE req' = Reply(p, [code |-> 200, order |-> req[p].order,
                           lastAuthorization |-> req[p].auth,
                           lastSettlement |->
                             SelectLatest(settlements, req[p].orderId, "settled_at")])
  /\ Log(p)

---------------------------------------------------------------------------
(* GET /orders                                                             *)

\* the handler reads limit and offset from the query string and issues
\* the query
ListOrdersRequest(p, limit, offset) ==
  /\ Serving
  /\ DbUnchanged /\ UNCHANGED now
  /\ req' = [req EXCEPT ![p] = [IdleReq EXCEPT !.kind = "listOrders", !.pc = "lo_all",
                 !.body = [limit |-> limit, offset |-> offset],
                 !.limit = OrElse(ParseInt(limit), DefaultLimit),
                 !.offset = OrElse(ParseInt(offset), 0),
                 !.pre = Snapshot]]
  /\ Log(p)

\* db.all(SELECT * FROM orders ORDER BY created_at DESC LIMIT ? OFFSET ?)
ListOrdersAll(p, ok) ==
  /\ req[p].pc = "lo_all"
  /\ Serving
  /\ DbUnchanged /\ UNCHANGED <<now, nreq>>
  /\ IF ~ok THEN req' = Reply(p, [code |-> 500, error |-> "storage"])
     ELSE req' = Reply(p, [code |-> 200,
                           rows |-> LimitOffset(NewestFirst(orders),
                                                req[p].limit, req[p].offset)])
  /\ Log(p)

---------------------------------------------------------------------------
(* GET /stats                                                              *)

StatsRequest(p) ==
  /\ Serving
  /\ DbUnchanged /\ UNCHANGED now
  /\ req' = [req EXCEPT ![p] = [IdleReq EXCEPT !.kind = "stats", !.pc = "stats_groups",
                                               !.pre = Snapshot]]
  /\ Log(p)

\* db.all(SELECT status, COUNT(*) ... GROUP BY status) and its callback
StatsGroupBy(p, ok) ==
  /\ req[p].pc = "stats_groups"
  /\ Serving
  /\ DbUnchanged /\ UNCHANGED <<now, nreq>>
  /\ IF ~ok THEN req' = Reply(p, [code |-> 500, error |-> "storage"])
     ELSE req' = [req EXCEPT ![p].pc = "stats_count",
                             ![p].out.totals = GroupByStatus(orders)]
  /\ Log(p)

\* db.get(SELECT COUNT(*) AS total FROM orders) and its callback, which
\* does not look at e2: without a row the total is taken as 0
StatsCountAll(p, ok) ==
  /\ req[p].pc = "stats_count"
  /\ Serving
  /\ DbUnchanged /\ UNCHANGED <<now, nreq>>
  /\ req' = [req EXCEPT ![p].pc = "stats_sum",
                        ![p].out.totals =
                          WithKey(@, "ALL", IF ok THEN Len(orders) ELSE 0)]
  /\ Log(p)

\* db.get(SELECT IFNULL(SUM(amount), 0) AS settled_total FROM settlements)
StatsSettledTotal(p, ok) ==
  /\ req[p].pc = "stats_sum"
  /\ Serving
  /\ DbUnchanged /\ UNCHANGED <<now, nreq>>
  /\ IF ~ok THEN req' = Reply(p, [code |-> 500, error |-> "storage"])
     ELSE req' = [req EXCEPT ![p].pc = "stats_recent",
                             ![p].out.settled_total = SumAmounts(settlements)]
  /\ Log(p)

\* db.all(SELECT * FROM orders ORDER BY created_at DESC LIMIT 5) and the
\* response
StatsRecent(p, ok) ==
  /\ req[p].pc = "stats_recent"
  /\ Serving
  /\ DbUnchanged /\ UNCHANGED <<now, nreq>>
  /\ IF ~ok THEN req' = Reply(p, [code |-> 500, error |-> "storage"])
     ELSE req' = Reply(p, [code |-> 200,
                           totals |-> req[p].out.totals,
                           recentOrders |->
                             LimitOffset(NewestFirst(orders), RecentLimit, 0),
                           settled_total |-> req[p].out.settled_total])
  /\ Log(p)

---------------------------------------------------------------------------
(* POST /seed-orders                                                       *)

\* the handler queues the ten stmt.run calls and responds at once
SeedOrdersRequest(p) ==
  /\ Serving
  /\ DbUnchanged /\ UNCHANGED now
  /\ req' = [req EXCEPT ![p] = [IdleReq EXCEPT !.kind = "seed", !.pc = "seed_run",
                 !.i = 1, !.pre = Snapshot,
                 !.resp = [code |-> 200,
                           message |-> "10 sample orders added or updated."]]]
  /\ Log(p)

\* one queued stmt.run(o).  It is given no callback: a statement that fails
\* (in storage, or on the foreign key) emits an 'error' event nobody
\* listens to, which is thrown as an uncaught exception and ends the
\* process; the requests in flight are never answered
SeedOrdersRun(p, ok) ==
  /\ req[p].pc = "seed_run"
  /\ up
  /\ UNCHANGED <<authorizations, settlements, now, nreq, customers, foreignKeys>>
  /\ LET o == sampleOrders[req[p].i] IN
     IF ok /\ ForeignKeyOk(o[2])
     THEN /\ orders' = UpsertOrder(orders, o[1], o[2], o[3], o[4], now)
          /\ req' = [req EXCEPT ![p].i = @ + 1,
                        ![p].pc = IF req[p].i = Len(sampleOrders) THEN "done"
                                  ELSE "seed_run"]
          /\ up' = up
     ELSE /\ orders' = orders
          /\ req' = req
          /\ up' = FALSE
  /\ Log(p)

---------------------------------------------------------------------------
(* POST /auth/register (src/auth.js)                                       *)

\* String(x).trim().toLowerCase() of a non-empty string
Normalize(x) ==
  CASE x.str = "Ann@X.com" -> "ann@x.com"
    [] x.str = " ann@x.com " -> "ann@x.com"
    [] x.str = "Ann" -> "ann"
    [] x.str = "BOB" -> "bob"
    [] OTHER -> x.str

\* bcrypt.hashSync(password, 10): a hash that only the password matches
PasswordHash(password) == [bcrypt |-> password.str]

\* crypto.randomBytes(32).toString("hex")
VerifyTokens == {"t1", "t2"}

\* the required fields of the body besides email, username and password
ProfileFields == {"full_name", "address_line1", "city", "state", "zip_code"}

\* SELECT customer_id FROM customers WHERE LOWER(email) = ? OR
\* LOWER(username) = ? (a NULL column matches nothing)
FindCustomer(cs, email, username) ==
  {i \in 1..Len(cs) : cs[i].email = JStr(email) \/ cs[i].username = JStr(username)}

\* customer_id INTEGER PRIMARY KEY AUTOINCREMENT: no customer is ever
\* deleted, so the next id is one more than the greatest one stored
NextCustomerId(cs) ==
  IF Len(cs) = 0 THEN 1
  ELSE 1 + cs[CHOOSE i \in 1..Len(cs) :
                \A j \in 1..Len(cs) : cs[j].customer_id <= cs[i].customer_id].customer_id

MissingRegisterFields ==
  "Missing one or more required fields: email, username, password, full_name, address_line1, city, state, zip_code."

AccountExists ==
  "An account with that email or username already exists. Use a different email/username."

AccountCreated == "Account created. Check your email to verify your address."

AccountCreatedNoMail ==
  "Account created, but verification email could not be sent in this environment."

\* a field of the destructured body: undefined when the body does not
\* carry it
Field(body, f) == IF f \in DOMAIN body THEN body[f] ELSE JNull

\* x || null
OrNull(x) == IF Falsy(x) THEN NoText ELSE x

\* the synchronous part of the handler: validation, normalization, the
\* password hash and the token draw; a valid request issues the duplicate
\* lookup
RegisterRequest(p, body, token) ==
  /\ Serving
  /\ DbUnchanged /\ UNCHANGED now
  /\ LET q == [IdleReq EXCEPT !.kind = "register", !.pre = Snapshot, !.body = body] IN
     IF \/ Falsy(body.email) \/ Falsy(body.username) \/ Falsy(body.password)
        \/ \E f \in ProfileFields : Falsy(body[f])
     THEN req' = [req EXCEPT ![p] = [q EXCEPT !.pc = "done",
                     !.resp = [code |-> 400, error |-> MissingRegisterFields]]]
     ELSE req' = [req EXCEPT ![p] = [q EXCEPT !.pc = "rg_find",
                     !.reg = [email |-> Normalize(body.email),
                              username |-> Normalize(body.username),
                              password_hash |-> PasswordHash(body.password),
                              full_name |-> body.full_name.str,
                              address_line1 |-> body.address_line1,
                              address_line2 |-> OrNull(Field(body, "address_line2")),
                              city |-> OrNull(body.city),
                              state |-> OrNull(body.state),
                              zip_code |-> body.zip_code,
                              verify_token |-> token]]]
  /\ Log(p)

\* db.get(SELECT customer_id FROM customers WHERE ...) and its callback:
\* 500 / 409 or on to the insert
RegisterFindExisting(p, ok) ==
  /\ req[p].pc = "rg_find"
  /\ Serving
  /\ DbUnchanged /\ UNCHANGED <<now, nreq>>
  /\ IF ~ok THEN req' = Reply(p, [code |-> 500, error |-> "Database read error"])
     ELSE IF FindCustomer(customers, req[p].reg.email, req[p].reg.username) # {}
     THEN req' = Reply(p, [code |-> 409, error |-> AccountExists])
     ELSE req' = [req EXCEPT ![p].pc = "rg_insert"]
  /\ Log(p)

\* the row INSERT INTO customers writes: is_verified takes its default 0
CustomerRow(id, r) ==
  [customer_id |-> id, full_name |-> r.full_name,
   address_line1 |-> r.address_line1, address_line2 |-> r.address_line2,
   city |-> r.city, state |-> r.state, zip_code |-> r.zip_code,
   email |-> JStr(r.email),
   username |-> JStr(r.username), password_hash |-> r.password_hash,
   is_verified |-> 0, verify_token |-> JStr(r.verify_token)]

\* email TEXT UNIQUE, username TEXT UNIQUE
UniqueOk(cs, r) ==
  \A i \in 1..Len(cs) : cs[i].email # JStr(r.email) /\ cs[i].username # JStr(r.username)

\* a variant that undoes the insert when the mail fails (for sensitivity
\* checks)
RegisterMailRollback(p, sent) ==
  /\ req[p].pc = "rg_mail"
  /\ Serving
  /\ UNCHANGED <<orders, authorizations, settlements, now, nreq>>
  /\ IF sent
     THEN /\ customers' = customers
          /\ req' = Reply(p, [code |-> 201, ok |-> TRUE,
                              customerId |-> req[p].customerId,
                              email |-> req[p].reg.email,
                              username |-> req[p].reg.username,
                              message |-> AccountCreated])
     ELSE /\ customers' = SelectSeq(customers,
                            LAMBDA c : c.customer_id # req[p].customerId)
          /\ req' = Reply(p, [code |-> 500, error |-> "Email send error"])
  /\ Log(p)

\* db.run(INSERT INTO customers ...) and its callback: 500, or this.lastID
\* and the call of sendVerificationEmail
RegisterInsert(p, ok) ==
  /\ req[p].pc = "rg_insert"
  /\ Serving
  /\ UNCHANGED <<orders, authorizations, settlements, now, nreq>>
  /\ IF ok /\ UniqueOk(customers, req[p].reg)
     THEN /\ customers' = Append(customers,
                            CustomerRow(NextCustomerId(customers), req[p].reg))
          /\ req' = [req EXCEPT ![p].pc = "rg_mail",
                                ![p].customerId = NextCustomerId(customers)]
     ELSE /\ customers' = customers
          /\ req' = Reply(p, [code |-> 500, error |-> "Database write error"])
  /\ Log(p)

\* the promise of sendVerificationEmail settles: .then answers 201 with a
\* message, .catch answers 201 with a warning
RegisterMail(p, sent) ==
  /\ req[p].pc = "rg_mail"
  /\ Serving
  /\ DbUnchanged /\ UNCHANGED <<now, nreq>>
  /\ req' = Reply(p, IF sent
                     THEN [code |-> 201, ok |-> TRUE,
                           customerId |-> req[p].customerId,
                           email |-> req[p].reg.email,
                           username |-> req[p].reg.username,
                           message |-> AccountCreated]
                     ELSE [code |-> 201, ok |-> TRUE,
                           customerId |-> req[p].customerId,
                           email |-> req[p].reg.email,
                           username |-> req[p].reg.username,
                           warning |-> AccountCreatedNoMail])
  /\ Log(p)

---------------------------------------------------------------------------
(* POST /auth/login (src/auth.js)                                          *)

\* bcrypt.compareSync(password, hash)
PasswordMatches(password, hash) == hash = [bcrypt |-> password]

LoginRequest(p, usernameOrEmail, password) ==
  /\ Serving
  /\ DbUnchanged /\ UNCHANGED now
  /\ LET q == [IdleReq EXCEPT !.kind = "login", !.pre = Snapshot,
                  !.body = [usernameOrEmail |-> usernameOrEmail,
                            password |-> password]] IN
     IF Falsy(usernameOrEmail) \/ Falsy(password)
     THEN req' = [req EXCEPT ![p] = [q EXCEPT !.pc = "done",
                     !.resp = [code |-> 400,
                               error |-> "Missing usernameOrEmail or password."]]]
     ELSE req' = [req EXCEPT ![p] = [q EXCEPT !.pc = "lg_find",
                     !.reg = [lookup |-> Normalize(usernameOrEmail),
                              password |-> password.str]]]
  /\ Log(p)

\* the callback of the lookup on the row it was given
LoginAnswer(user, password) ==
  IF user.password_hash = NoText \/ ~PasswordMatches(password, user.password_hash)
  THEN [code |-> 401, error |-> "Invalid credentials."]
  ELSE IF user.is_verified = 0
  THEN [code |-> 403, error |-> "Email not verified. Check your inbox.",
        needsVerification |-> TRUE]
  ELSE [code |-> 200, ok |-> TRUE,
        user |-> [customerId |-> user.customer_id, full_name |-> user.full_name,
                  email |-> user.email, username |-> user.username]]

\* a variant that does not look at is_verified (for sensitivity checks)
LoginFindAnyAccount(p, ok) ==
  /\ req[p].pc = "lg_find"
  /\ Serving
  /\ DbUnchanged /\ UNCHANGED <<now, nreq>>
  /\ LET found == FindCustomer(customers, req[p].reg.lookup, req[p].reg.lookup) IN
     IF ~ok THEN req' = Reply(p, [code |-> 500, error |-> "Database read error"])
     ELSE IF found = {}
     THEN req' = Reply(p, [code |-> 401, error |-> "Invalid credentials."])
     ELSE \E i \in found :
            req' = Reply(p, LoginAnswer([customers[i] EXCEPT !.is_verified = 1],
                                        req[p].reg.password))
  /\ Log(p)

\* db.get(SELECT ... FROM customers WHERE LOWER(email) = ? OR
\* LOWER(username) = ?) and its callback; the query has no ORDER BY, so
\* when several rows match any of them may be the one db.get returns
LoginFind(p, ok) ==
  /\ req[p].pc = "lg_find"
  /\ Serving
  /\ DbUnchanged /\ UNCHANGED <<now, nreq>>
  /\ LET found == FindCustomer(customers, req[p].reg.lookup, req[p].reg.lookup) IN
     IF ~ok THEN req' = Reply(p, [code |-> 500, error |-> "Database read error"])
     ELSE IF found = {}
     THEN req' = Reply(p, [code |-> 401, error |-> "Invalid credentials."])
     ELSE \E i \in found :
            req' = Reply(p, LoginAnswer(customers[i], req[p].reg.password))
  /\ Log(p)

---------------------------------------------------------------------------
(* GET /auth/verify-email (src/auth.js)                                    *)

VerifyEmailRequest(p, token) ==
  /\ Serving
  /\ DbUnchanged /\ UNCHANGED now
  /\ LET q == [IdleReq EXCEPT !.kind = "verify", !.pre = Snapshot,
                  !.body = [token |-> token]] IN
     IF Falsy(token)
     THEN req' = [req EXCEPT ![p] = [q EXCEPT !.pc = "done",
                     !.resp = [code |-> 400, error |-> "Missing verification token."]]]
     ELSE req' = [req EXCEPT ![p] = [q EXCEPT !.pc = "ve_find",
                     !.reg = [verify_token |-> token.str]]]
  /\ Log(p)

\* SELECT customer_id FROM customers WHERE verify_token = ?
FindToken(cs, token) == {i \in 1..Len(cs) : cs[i].verify_token = JStr(token)}

\* db.get(SELECT customer_id FROM customers WHERE verify_token = ?) and its
\* callback: 500 / 400 or on to the update
VerifyEmailFind(p, ok) ==
  /\ req[p].pc = "ve_find"
  /\ Serving
  /\ DbUnchanged /\ UNCHANGED <<now, nreq>>
  /\ LET found == FindToken(customers, req[p].reg.verify_token) IN
     IF ~ok THEN req' = Reply(p, [code |-> 500, error |-> "Database read error"])
     ELSE IF found = {}
     THEN req' = Reply(p, [code |-> 400,
                           error |-> "Invalid or expired verification token."])
     ELSE \E i \in found :
            req' = [req EXCEPT ![p].pc = "ve_update",
                               ![p].customerId = customers[i].customer_id]
  /\ Log(p)

\* a variant that leaves the token in place (for sensitivity checks)
MarkVerifiedKeepingToken(cs, id) ==
  [i \in 1..Len(cs) |->
     IF cs[i].customer_id = id THEN [cs[i] EXCEPT !.is_verified = 1] ELSE cs[i]]

\* UPDATE customers SET is_verified = 1, verify_token = NULL
\* WHERE customer_id = ?
MarkVerified(cs, id) ==
  [i \in 1..Len(cs) |->
     IF cs[i].customer_id = id
     THEN [cs[i] EXCEPT !.is_verified = 1, !.verify_token = NoText]
     ELSE cs[i]]

\* db.run(UPDATE customers ...) and its callback
VerifyEmailUpdate(p, ok) ==
  /\ req[p].pc = "ve_update"
  /\ Serving
  /\ UNCHANGED <<orders, authorizations, settlements, now, nreq>>
  /\ IF ok
     THEN /\ customers' = MarkVerified(customers, req[p].customerId)
          /\ req' = Reply(p, [code |-> 200, ok |-> TRUE,
                              message |-> "Email verified successfully. You can now log in."])
     ELSE /\ customers' = customers
          /\ req' = Reply(p, [code |-> 500, error |-> "Database write error"])
  /\ Log(p)

---------------------------------------------------------------------------
(* POST /auth/update (the auth router of src/unnamed/part_000)             *)

\* email.toLowerCase(): the address is not trimmed
LowerCase(x) ==
  CASE x.str = "Ann@X.com" -> "ann@x.com"
    [] x.str = "ANN@x.com" -> "ann@x.com"
    [] OTHER -> x.str

\* password.length
StringLength(x) ==
  CASE x.str = "pw" -> 2
    [] x.str = "bad" -> 3
    [] x.str = "longer-password" -> 15

\* the columns of the SET list: full_name, address_line1, zip_code and
\* password when the body gives a truthy value, address_line2, city and
\* state when the body carries the field at all (!== undefined)
UpdateColumns(body) ==
  {c \in {"full_name", "address_line1", "zip_code"} : ~Falsy(Field(body, c))}
    \cup {c \in {"address_line2", "city", "state"} : c \in DOMAIN body}
    \cup (IF Falsy(Field(body, "password")) THEN {} ELSE {"password_hash"})

\* the parameter bound to a column of the SET list
UpdateValue(body, c) ==
  CASE c = "full_name" -> body.full_name.str
    [] c = "password_hash" -> PasswordHash(body.password)
    [] c \in {"address_line2", "city", "state"} -> OrNull(body[c])
    [] OTHER -> body[c]

\* the synchronous part of the handler: validation, the SET list, and the
\* UPDATE is issued
UpdateRequest(p, body) ==
  /\ Serving
  /\ DbUnchanged /\ UNCHANGED now
  /\ LET q == [IdleReq EXCEPT !.kind = "update", !.pre = Snapshot, !.body = body] IN
     IF Falsy(Field(body, "email"))
     THEN req' = [req EXCEPT ![p] = [q EXCEPT !.pc = "done",
                     !.resp = [code |-> 400,
                               error |-> "Email is required to update account details."]]]
     ELSE IF ~Falsy(Field(body, "password")) /\ StringLength(body.password) < 8
     THEN req' = [req EXCEPT ![p] = [q EXCEPT !.pc = "done",
                     !.resp = [code |-> 400,
                               error |-> "Password must be at least 8 characters long."]]]
     ELSE IF UpdateColumns(body) = {}
     THEN req' = [req EXCEPT ![p] = [q EXCEPT !.pc = "done",
                     !.resp = [code |-> 400, error |-> "No fields to update."]]]
     ELSE req' = [req EXCEPT ![p] = [q EXCEPT !.pc = "up_run",
                     !.reg = [email |-> LowerCase(body.email),
                              set |-> [c \in UpdateColumns(body) |->
                                         UpdateValue(body, c)]]]]
  /\ Log(p)

\* the value of column c after the UPDATE
Assigned(set, c, old) == IF c \in DOMAIN set THEN set[c] ELSE old

\* UPDATE customers SET <the SET list> WHERE LOWER(email) = ?
UpdateCustomers(cs, r) ==
  [i \in 1..Len(cs) |->
     IF cs[i].email = JStr(r.email)
     THEN [cs[i] EXCEPT
             !.full_name = Assigned(r.set, "full_name", @),
             !.address_line1 = Assigned(r.set, "address_line1", @),
             !.address_line2 = Assigned(r.set, "address_line2", @),
             !.city = Assigned(r.set, "city", @),
             !.state = Assigned(r.set, "state", @),
             !.zip_code = Assigned(r.set, "zip_code", @),
             !.password_hash = Assigned(r.set, "password_hash", @)]
     ELSE cs[i]]

\* db.run(UPDATE customers ...) and its callback: 500, 404 when
\* this.changes is 0, else 200
UpdateRun(p, ok) ==
  /\ req[p].pc = "up_run"
  /\ Serving
  /\ UNCHANGED <<orders, authorizations, settlements, now, nreq>>
  /\ IF ~ok
     THEN /\ customers' = customers
          /\ req' = Reply(p, [code |-> 500, error |-> "Database write error"])
     ELSE IF \A i \in 1..Len(customers) : customers[i].email # JStr(req[p].reg.email)
     THEN /\ customers' = customers
          /\ req' = Reply(p, [code |-> 404, error |-> "No account found with that email."])
     ELSE /\ customers' = UpdateCustomers(customers, req[p].reg)
          /\ req' = Reply(p, [code |-> 200, ok |-> TRUE,
                              message |-> "Account details updated successfully."])
  /\ Log(p)

---------------------------------------------------------------------------
(* Specifications                                                          *)

\* the database steps of the request in slot p; oks = BOOLEAN lets every
\* database call fail, oks = {TRUE} leaves only the foreign-key failure
CheckoutStep(p, oks) ==
  \/ \E ok \in oks : CheckoutUpsertOrder(p, ok)
  \/ \E ok \in oks : CheckoutInsertAuth(p, ok)

SettleStep(p, oks) ==
  \/ \E ok \in oks : SettleLoadOrder(p, ok)
  \/ \E ok \in oks, randomPart \in RandomParts, change \in ClockChanges :
       SettleFindAuth(p, ok, randomPart, change)
  \/ \E ok \in oks : SettleInsertSettlement(p, ok)
  \/ \E ok \in oks : SettleUpdateStatus(p, ok)

BackfillStep(p, oks) == \E ok \in oks : SettleBackfillAuth(p, ok)

GetOrderStep(p, oks) ==
  \/ \E ok \in oks : GetOrderLoad(p, ok)
  \/ \E ok \in oks : GetOrderLastAuth(p, ok)
  \/ \E ok \in oks : GetOrderLastSettlement(p, ok)

Step(p, oks) ==
  \/ CheckoutStep(p, oks)
  \/ SettleStep(p, oks)
  \/ BackfillStep(p, oks)
  \/ GetOrderStep(p, oks)

\* a checkout, settle or getOrder request arrives at slot p, its body drawn
\* from the inputs in
Arrive(p, limit, in) ==
  \/ \E o \in 1..Len(in.orderIds), c \in 1..Len(in.customerIds),
        a \in 1..Len(in.amounts), r \in in.draws :
       Accept(p, limit)
       /\ CheckoutRequest(p, in.orderIds[o], in.customerIds[c], in.amounts[a], r)
  \/ \E o \in 1..Len(in.orderIds), a \in 1..Len(in.amounts) :
       Accept(p, limit) /\ SettleRequest(p, in.orderIds[o], in.amounts[a])
  \/ \E o \in 1..Len(in.orderIds) :
       /\ ~Falsy(in.orderIds[o])
       /\ Accept(p, limit)
       /\ GetOrderRequest(p, in.orderIds[o].str)

\* POST /seed-orders arrives at slot p, or one of its queued upserts runs
Seed(p, limit, oks) ==
  \/ Accept(p, limit) /\ SeedOrdersRequest(p)
  \/ \E ok \in oks : SeedOrdersRun(p, ok)

Amounts == [n \in 1..MaxAmount |-> JNum(n)]
Draws == {59, 76, 93, 94}

\* Spec: requests overlap (two slots, the database calls interleave) and
\* every database call may fail
RaceInputs ==
  [orderIds |-> << JStr("ORD1002"), JStr("ORD9001") >>,
   customerIds |-> << JNum(2), JNum(4) >>,
   amounts |-> Amounts, draws |-> Draws]

Next ==
  \/ Tick
  \/ \E p \in Procs : Arrive(p, MaxRequests, RaceInputs)
  \/ \E p \in Procs : Step(p, BOOLEAN)
  \/ \E p \in Procs : Seed(p, MaxRequests, BOOLEAN)

Spec == Init /\ [][Next]_vars

\* SpecSeq: requests one after the other (a single slot) on a seeded
\* PENDING order, a seeded AUTHORIZED order and a sample order
SeqInputs ==
  [orderIds |-> << JStr("ORD1001"), JStr("ORD1002"), JStr("ORD9001") >>,
   customerIds |-> << JNum(1), JNum(2) >>,
   amounts |-> Amounts, draws |-> Draws]

NextSeq ==
  \/ Tick
  \/ Arrive(1, MaxSeqRequests, SeqInputs)
  \/ Step(1, BOOLEAN)
  \/ Seed(1, MaxSeqRequests, BOOLEAN)

SpecSeq == Init /\ [][NextSeq]_vars

\* SpecLife: the life of the seeded AUTHORIZED order, requests one after
\* the other, no storage failure (the order always has an authorization
\* row, so no backfill)
LifeInputs ==
  [orderIds |-> << JStr("ORD1002") >>,
   customerIds |-> << JNum(2) >>,
   amounts |-> Amounts, draws |-> Draws]

NextLife ==
  \/ Tick
  \/ Arrive(1, MaxLifeRequests, LifeInputs)
  \/ CheckoutStep(1, {TRUE})
  \/ SettleStep(1, {TRUE})
  \/ GetOrderStep(1, {TRUE})

SpecLife == Init /\ [][NextLife]_vars

\* SpecSeed: the life of a sample order of POST /seed-orders on a later
\* start of the server (on its first start the fourth sample order ends the
\* process), requests one after the other, all within one second
SeedInputs ==
  [orderIds |-> << JStr("ORD9001") >>,
   customerIds |-> << JNum(2) >>,
   amounts |-> Amounts, draws |-> {59, 94}]

NextSeed ==
  \/ Arrive(1, MaxSeedRequests, SeedInputs)
  \/ Step(1, BOOLEAN)
  \/ Seed(1, MaxSeedRequests, BOOLEAN)

SpecSeed == InitExisting /\ [][NextSeed]_vars

\* SpecInput: well-formed and malformed request bodies
BodyInputs ==
  [orderIds |-> << JNull, JStr(""), JStr("ORD9001") >>,
   customerIds |-> << JNull, JNum(0), JNum(2) >>,
   amounts |-> << JNull, JNum(0), JNum(0 - 1), JStr("abc"), JStr(""), JStr("2"),
                  JStr("Infinity"), Infinity, JBool(FALSE), JBool(TRUE) >> \o Amounts,
   draws |-> Draws]

NextInput ==
  \/ Tick
  \/ Arrive(1, MaxInputRequests, BodyInputs)
  \/ \E parsed \in BOOLEAN :
       Accept(1, MaxInputRequests) /\ SettleRequestNoBody(1, parsed)
  \/ Step(1, BOOLEAN)
  \/ Seed(1, MaxInputRequests, BOOLEAN)

SpecInput == Init /\ [][NextInput]_vars

\* SpecRead: the read endpoints (GET /orders/:id, GET /orders, GET /stats)
\* after at most one writing request, requests one after the other, every
\* database call may fail.  The database file may exist before the server
\* starts (the schema script with its seed rows and its PRAGMA runs only
\* when it does not), so the store starts seeded on either kind of start,
\* or with its tables empty on an existing file.
StatsStep(p, oks) ==
  \/ \E ok \in oks : StatsGroupBy(p, ok)
  \/ \E ok \in oks : StatsCountAll(p, ok)
  \/ \E ok \in oks : StatsSettledTotal(p, ok)
  \/ \E ok \in oks : StatsRecent(p, ok)

ListOrdersStep(p, oks) == \E ok \in oks : ListOrdersAll(p, ok)

Limits == << JNull, JStr("0"), JStr("1"), JStr("2"), JStr("-1"), JStr("abc") >>
Offsets == << JNull, JStr("1"), JStr("5"), JStr("-1") >>

ArriveRead(p, limit) ==
  \/ Accept(p, limit) /\ StatsRequest(p)
  \/ \E l \in 1..Len(Limits), o \in 1..Len(Offsets) :
       Accept(p, limit) /\ ListOrdersRequest(p, Limits[l], Offsets[o])

ReadInputs ==
  [orderIds |-> << JStr("ORD9001") >>,
   customerIds |-> << JNum(2) >>,
   amounts |-> << JNum(1) >>, draws |-> {59, 94}]

InitRead ==
  /\ \/ /\ orders = SeedOrders
        /\ authorizations = SeedAuthorizations
        /\ settlements = SeedSettlements
        /\ foreignKeys \in BOOLEAN
     \/ /\ orders = <<>>
        /\ authorizations = <<>>
        /\ settlements = <<>>
        /\ foreignKeys = FALSE
  /\ customers = SeedCustomers
  /\ now = 0
  /\ req = [p \in Procs |-> IdleReq]
  /\ nreq = 0
  /\ hist = <<>>
  /\ up = TRUE

NextRead ==
  \/ Tick
  \/ Arrive(1, MaxReadRequests, ReadInputs)
  \/ ArriveRead(1, MaxReadRequests)
  \/ Step(1, BOOLEAN)
  \/ StatsStep(1, BOOLEAN)
  \/ ListOrdersStep(1, BOOLEAN)
  \/ Seed(1, MaxReadRequests, BOOLEAN)

SpecRead == InitRead /\ [][NextRead]_vars

\* SpecDraw: checkouts of a new order under every draw of Math.random()
AllDraws == 0..99

NextDraw ==
  \/ \E a \in 1..Len(Amounts), r \in AllDraws :
       Accept(1, MaxDrawRequests)
       /\ CheckoutRequest(1, JStr("ORD9001"), JNum(2), Amounts[a], r)
  \/ CheckoutStep(1, {TRUE})

SpecDraw == Init /\ [][NextDraw]_vars

\* SpecRegister: register requests, overlapping (two slots); every
\* database call may fail and the verification mail may fail
RegisterStep(p, oks) ==
  \/ \E ok \in oks : RegisterFindExisting(p, ok)
  \/ \E ok \in oks : RegisterInsert(p, ok)
  \/ \E sent \in oks : RegisterMail(p, sent)

RegisterBody(email, username, zip) ==
  [email |-> email, username |-> username, password |-> JStr("pw"),
   full_name |-> JStr("Dan"), address_line1 |-> JStr("1 Elm St"),
   city |-> JStr("Rome"), state |-> JStr("GA"), zip_code |-> zip]

Emails == << JNull, JStr("Ann@X.com"), JStr("ann@x.com"), JStr("bob@x.com") >>
Usernames == << JStr(""), JStr("Ann"), JStr("bob") >>
ZipCodes == << JNull, JStr("30301") >>

ArriveRegister(p, limit) ==
  \E e \in 1..Len(Emails), u \in 1..Len(Usernames), z \in 1..Len(ZipCodes),
     token \in VerifyTokens :
    /\ Accept(p, limit)
    /\ RegisterRequest(p, RegisterBody(Emails[e], Usernames[u], ZipCodes[z]), token)

NextRegister ==
  \/ \E p \in Procs : ArriveRegister(p, MaxRegisterRequests)
  \/ \E p \in Procs : RegisterStep(p, BOOLEAN)

SpecRegister == Init /\ [][NextRegister]_vars

\* SpecFair: overlapping checkout, settle, getOrder and seed-orders
\* requests with well-formed and malformed bodies, every database call may
\* fail, and every database call that has been issued eventually calls back
FairInputs ==
  [orderIds |-> << JStr("ORD1002"), JStr("ORD1004"), JStr("ORD9001") >>,
   customerIds |-> << JNum(2) >>,
   amounts |-> << JNum(0), JNum(1) >>, draws |-> {59, 94}]

NextFair ==
  \/ \E p \in Procs : Arrive(p, MaxFairRequests, FairInputs)
  \/ \E p \in Procs : Step(p, BOOLEAN)
  \/ \E p \in Procs : Seed(p, MaxFairRequests, BOOLEAN)

CallsBack ==
  \A p \in Procs : WF_vars(Step(p, BOOLEAN)) /\ WF_vars(\E ok \in BOOLEAN : SeedOrdersRun(p, ok))

SpecFair == Init /\ [][NextFair]_vars /\ CallsBack

\* SpecOverlap: reads (GET /orders without parameters, GET /stats,
\* GET /orders/:id) overlapping with writes on an existing and a new order,
\* no storage failure
OverlapInputs ==
  [orderIds |-> << JStr("ORD1002"), JStr("ORD9001") >>,
   customerIds |-> << JNum(2) >>,
   amounts |-> << JNum(1) >>, draws |-> {59, 94}]

ArriveList(p, limit) ==
  \/ Accept(p, limit) /\ StatsRequest(p)
  \/ Accept(p, limit) /\ ListOrdersRequest(p, JNull, JNull)

NextOverlap ==
  \/ Tick
  \/ \E p \in Procs : Arrive(p, MaxOverlapRequests, OverlapInputs)
  \/ \E p \in Procs : ArriveList(p, MaxOverlapRequests)
  \/ \E p \in Procs : Step(p, {TRUE})
  \/ \E p \in Procs : StatsStep(p, {TRUE})
  \/ \E p \in Procs : ListOrdersStep(p, {TRUE})
  \/ \E p \in Procs : Seed(p, MaxOverlapRequests, {TRUE})

SpecOverlap == Init /\ [][NextOverlap]_vars

\* SpecAccount: register, verify-email, login and update requests one after
\* the other; every database call and the mail may fail.  The token of a
\* registration is 32 random bytes: a new one for every request.
FreshToken(n) == << "t1", "t2", "t3" >>[n + 1]

AccountStep(p, oks) ==
  \/ RegisterStep(p, oks)
  \/ \E ok \in oks : LoginFind(p, ok)
  \/ \E ok \in oks : VerifyEmailFind(p, ok)
  \/ \E ok \in oks : VerifyEmailUpdate(p, ok)
  \/ \E ok \in oks : UpdateRun(p, ok)

Logins == << JNull, JStr("Ann@X.com"), JStr("Ann"), JStr("bob") >>
Passwords == << JStr("pw"), JStr("bad"), JStr("longer-password") >>
UpdateBodies ==
  << [full_name |-> JStr("Eve")],
     [email |-> JStr("Ann@X.com")],
     [email |-> JStr("Ann@X.com"), full_name |-> JStr("Eve")],
     [email |-> JStr("Ann@X.com"), password |-> JStr("pw")],
     [email |-> JStr("Ann@X.com"), full_name |-> JStr("Eve"),
      password |-> JStr("longer-password")],
     [email |-> JStr("Ann@X.com"), city |-> JStr("Paris")],
     [email |-> JStr("Ann@X.com"), address_line2 |-> JNull],
     [email |-> JStr("bob@x.com"), zip_code |-> JStr("30301")] >>
QueryTokens == << JNull, JStr("t1"), JStr("t2"), JStr("zz") >>

ArriveAccount(p, limit) ==
  \/ \E e \in 2..3, u \in 2..3 :
       /\ Accept(p, limit)
       /\ RegisterRequest(p, RegisterBody(Emails[e + 1], Usernames[u], ZipCodes[2]),
                          FreshToken(nreq))
  \/ \E l \in 1..Len(Logins), w \in 1..Len(Passwords) :
       Accept(p, limit) /\ LoginRequest(p, Logins[l], Passwords[w])
  \/ \E t \in 1..Len(QueryTokens) :
       Accept(p, limit) /\ VerifyEmailRequest(p, QueryTokens[t])
  \/ \E b \in 1..Len(UpdateBodies) :
       Accept(p, limit) /\ UpdateRequest(p, UpdateBodies[b])

NextAccount ==
  \/ ArriveAccount(1, MaxAccountRequests)
  \/ AccountStep(1, BOOLEAN)

SpecAccount == Init /\ [][NextAccount]_vars

---------------------------------------------------------------------------
(* Properties                                                              *)

\* the status of order id in the orders table os, "NONE" when it has no row
StatusOf(os, id) ==
  IF SelectOrder(os, id) = NoRow THEN "NONE" ELSE SelectOrder(os, id).status

InvalidState == "Order not authorized, cannot settle"

\* slot p holds a completed request of the kind, past validation
Completed(p, kind) ==
  /\ req[p].kind = kind
  /\ req[p].pc = "done"
  /\ req[p].orderId # ""

\* the tables are as they were when the request in slot p arrived
TablesAsBefore(p) ==
  /\ orders = req[p].pre.orders
  /\ authorizations = req[p].pre.authorizations
  /\ settlements = req[p].pre.settlements

\* C1 -- two settle requests for the same order, both accepted while its
\* status is AUTHORIZED, and no other request: once both have answered
\* (no storage failure), exactly one answered 200 and the other 400
\* InvalidState, and exactly one Settlement row was added.
C1_RacingSettles(p, q) ==
  /\ p # q
  /\ nreq = 2
  /\ Completed(p, "settle") /\ Completed(q, "settle")
  /\ req[p].orderId = req[q].orderId
  /\ req[p].resp.code # 500 /\ req[q].resp.code # 500
  /\ StatusOf(req[p].pre.orders, req[p].orderId) = "AUTHORIZED"
  /\ StatusOf(req[q].pre.orders, req[q].orderId) = "AUTHORIZED"

C1_ExactlyOneSettles ==
  \A p, q \in Procs :
    C1_RacingSettles(p, q) =>
      /\ \/ /\ req[p].resp.code = 200
            /\ req[q].resp.code = 400 /\ req[q].resp.error = InvalidState
         \/ /\ req[q].resp.code = 200
            /\ req[p].resp.code = 400 /\ req[p].resp.error = InvalidState
      /\ CountRows(settlements, req[p].orderId)
           = CountRows(SeedSettlements, req[p].orderId) + 1

\* C2 -- a settle with a valid body on an existing order whose status is
\* PENDING, DECLINED, ERROR or SETTLED is answered 400 InvalidState (500 if
\* the order lookup itself fails) and leaves the three tables as they were.
C2_NotAuthorized(p) ==
  /\ Completed(p, "settle")
  /\ StatusOf(req[p].pre.orders, req[p].orderId)
       \in {"PENDING", "DECLINED", "ERROR", "SETTLED"}

C2_SettleRejected ==
  \A p \in Procs :
    C2_NotAuthorized(p) =>
      /\ \/ req[p].resp.code = 400 /\ req[p].resp.error = InvalidState
         \/ req[p].resp.code = 500
      /\ TablesAsBefore(p)

C2_Witness ==
  \E p \in Procs :
    /\ C2_NotAuthorized(p)
    /\ StatusOf(req[p].pre.orders, req[p].orderId) = "ERROR"
    /\ req[p].resp.code = 400

\* the mapping of section 4.2: result -> order status -> authorization outcome
Section42Status(result) ==
  CASE result = "SUCCESS" -> "AUTHORIZED"
    [] result = "INSUFFICIENT_FUNDS" -> "DECLINED"
    [] result = "INCORRECT_DETAILS" -> "DECLINED"
    [] result = "SERVER_ERROR" -> "ERROR"

Section42Outcome(status) ==
  CASE status = "AUTHORIZED" -> "SUCCESS"
    [] status = "DECLINED" -> "DECLINED"
    [] status = "ERROR" -> "ERROR"

\* C3 -- after a checkout with a valid body has answered 200 (requests one
\* after the other) there is exactly one Order row for orderId, one more
\* Authorization row for it than before, and the stored status is the
\* returned status, which is the section 4.2 image of the returned result
\* and has the returned outcome as its image.
C3_CheckoutPostcondition ==
  \A p \in Procs :
    Completed(p, "checkout") /\ req[p].resp.code = 200 =>
      /\ CountRows(orders, req[p].orderId) = 1
      /\ CountRows(authorizations, req[p].orderId)
           = CountRows(req[p].pre.authorizations, req[p].orderId) + 1
      /\ Len(authorizations) = Len(req[p].pre.authorizations) + 1
      /\ StatusOf(orders, req[p].orderId) = req[p].resp.status
      /\ req[p].resp.status = Section42Status(req[p].resp.result)
      /\ req[p].resp.outcome = Section42Outcome(req[p].resp.status)
      /\ req[p].resp.orderId = req[p].orderId

\* a re-checkout of an existing order that answered DECLINED
C3_Witness ==
  \E p \in Procs :
    /\ Completed(p, "checkout") /\ req[p].resp.code = 200
    /\ StatusOf(req[p].pre.orders, req[p].orderId) = "AUTHORIZED"
    /\ req[p].resp.result = "INCORRECT_DETAILS"


\* the rows of order id in table t, in rowid order
RowSeq(t, id) == SelectSeq(t, LAMBDA r : r.order_id = id)

\* every request so far has completed, each a successful checkout of order id
OnlyCheckoutsOf(id) ==
  /\ Len(hist) >= 1
  /\ nreq = Len(hist)
  /\ \A i \in 1..Len(hist) :
       /\ hist[i].kind = "checkout"
       /\ hist[i].code = 200
       /\ hist[i].orderId = id

AllOrderIds == {"ORD1001", "ORD1002", "ORD1003", "ORD1004", "ORD9001"}

\* C4 -- after n successful checkouts of the same orderId, one after the
\* other and nothing else, there is exactly one Order row for it, holding
\* the customer_id, status and total_amount of the last checkout, and its
\* Authorization rows are the ones it had at the start followed by n new
\* ones, the i-th carrying the outcome and amount of the i-th checkout.
C4_IdempotentByOverwrite ==
  \A id \in AllOrderIds :
    OnlyCheckoutsOf(id) =>
      LET n == Len(hist)
          last == hist[n]
          before == RowSeq(SeedAuthorizations, id)
          after == RowSeq(authorizations, id)
      IN /\ CountRows(orders, id) = 1
         /\ SelectOrder(orders, id).customer_id = last.customerId
         /\ SelectOrder(orders, id).status = Section42Status(last.result)
         /\ SelectOrder(orders, id).total_amount = last.amount
         /\ Len(after) = Len(before) + n
         /\ SubSeq(after, 1, Len(before)) = before
         /\ \A i \in 1..n :
              /\ after[Len(before) + i].amount = hist[i].amount
              /\ after[Len(before) + i].outcome
                   = Section42Outcome(Section42Status(hist[i].result))

\* two checkouts of a new order that differ in customer, amount and result
C4_Witness ==
  /\ OnlyCheckoutsOf("ORD9001")
  /\ Len(hist) = 2
  /\ hist[1].customerId # hist[2].customerId
  /\ hist[1].amount # hist[2].amount
  /\ hist[1].result = "SUCCESS"
  /\ hist[2].result = "SERVER_ERROR"

\* C5 -- (requests one after the other) a settle that answered 200 on an
\* order that had no Authorization row has added exactly one Authorization
\* row, for that order and with outcome SUCCESS; a settle on an order that
\* had an Authorization row has added none; and every step that inserts a
\* Settlement row for an order finds an Authorization row for it already
\* stored.
C5_Backfilled(p) ==
  LET before == req[p].pre.authorizations IN
  /\ Len(authorizations) = Len(before) + 1
  /\ SubSeq(authorizations, 1, Len(before)) = before
  /\ authorizations[Len(authorizations)].order_id = req[p].orderId
  /\ authorizations[Len(authorizations)].outcome = "SUCCESS"

C5_AfterSettle ==
  \A p \in Procs :
    Completed(p, "settle") =>
      IF CountRows(req[p].pre.authorizations, req[p].orderId) = 0
      THEN req[p].resp.code = 200 => C5_Backfilled(p)
      ELSE authorizations = req[p].pre.authorizations

C5_SettlementInsert ==
  \A id \in AllOrderIds :
    CountRows(settlements', id) > CountRows(settlements, id) =>
      /\ CountRows(authorizations, id) >= 1
      /\ authorizations' = authorizations

C5_BackfillBeforeSettlement ==
  [](C5_AfterSettle) /\ [][C5_SettlementInsert]_vars

C5_Witness ==
  \E p \in Procs :
    /\ Completed(p, "settle") /\ req[p].resp.code = 200
    /\ CountRows(req[p].pre.authorizations, req[p].orderId) = 0
    /\ CountRows(authorizations, req[p].orderId) = 1
    /\ CountRows(settlements, req[p].orderId) = 1


\* C6 -- (one request after the other, no storage failure) a checkout whose
\* draw is SUCCESS answers result SUCCESS and status AUTHORIZED; a settle
\* of amount b directly after it answers paymentStatus SETTLED; and a
\* getOrder directly after that shows order.status SETTLED and
\* lastSettlement.amount = b.
C6_CheckoutThenSettle(n, id) ==
  /\ n >= 2
  /\ hist[n].kind = "settle" /\ hist[n].orderId = id
  /\ hist[n - 1].kind = "checkout" /\ hist[n - 1].orderId = id
  /\ hist[n - 1].result = "SUCCESS"

C6_Lifecycle ==
  LET n == Len(hist) IN
  /\ Completed(1, "checkout") /\ req[1].result = "SUCCESS" =>
       /\ req[1].resp.code = 200
       /\ req[1].resp.result = "SUCCESS"
       /\ req[1].resp.status = "AUTHORIZED"
  /\ Completed(1, "settle") /\ C6_CheckoutThenSettle(n, req[1].orderId) =>
       /\ req[1].resp.code = 200
       /\ req[1].resp.paymentStatus = "SETTLED"
  /\ Completed(1, "getOrder") /\ n >= 3
       /\ C6_CheckoutThenSettle(n - 1, req[1].orderId) =>
       /\ req[1].resp.code = 200
       /\ req[1].resp.order.status = "SETTLED"
       /\ req[1].resp.lastSettlement.amount = hist[n - 1].amount

\* a successful settle of order id is logged at j and since then no request
\* of one of the kinds has completed
SettledSince(j, id, kinds) ==
  /\ hist[j].kind = "settle" /\ hist[j].orderId = id /\ hist[j].code = 200
  /\ \A k \in (j + 1)..(Len(hist) - 1) : hist[k].kind \notin kinds

C7_SettleIsTransition ==
  Completed(1, "settle") /\ req[1].resp.code = 200 =>
    /\ StatusOf(req[1].pre.orders, req[1].orderId) = "AUTHORIZED"
    /\ StatusOf(orders, req[1].orderId) = "SETTLED"

C7_RejectedSince(kinds) ==
  Completed(1, "settle")
    /\ (\E j \in 1..(Len(hist) - 1) : SettledSince(j, req[1].orderId, kinds)) =>
    /\ req[1].resp.code # 200
    /\ settlements = req[1].pre.settlements

\* C7 as stated -- (one request after the other) a settle that answers 200
\* finds the order AUTHORIZED and leaves it SETTLED, and after it every
\* settle of the same order is rejected and adds no Settlement row as long as
\* no checkout has been made since.
C7_SettledUntilCheckout ==
  C7_SettleIsTransition /\ C7_RejectedSince({"checkout"})

\* C7 amended -- (one request after the other) a settle that answers 200
\* finds the order AUTHORIZED and leaves it SETTLED, and after it every
\* settle of the same order is rejected and adds no Settlement row as long as
\* neither a checkout nor a seed-orders call has been made since.
C7_SettledUntilCheckoutOrSeed ==
  C7_SettleIsTransition /\ C7_RejectedSince({"checkout", "seed"})

\* a settle is rejected with InvalidState after a successful settle
C7_Witness ==
  /\ Completed(1, "settle")
  /\ \E j \in 1..(Len(hist) - 1) :
       SettledSince(j, req[1].orderId, {"checkout", "seed"})
  /\ req[1].resp.code = 400 /\ req[1].resp.error = InvalidState

\* the part of the database that belongs to order id: its status and total,
\* the (outcome, amount) of its Authorization rows and the amounts of its
\* Settlement rows, in insertion order
OrderState(os, as, ss, id) ==
  [status |-> StatusOf(os, id),
   total |-> IF SelectOrder(os, id) = NoRow THEN 0
             ELSE SelectOrder(os, id).total_amount,
   auths |-> [i \in 1..Len(RowSeq(as, id)) |->
                <<RowSeq(as, id)[i].outcome, RowSeq(as, id)[i].amount>>],
   settled |-> [i \in 1..Len(RowSeq(ss, id)) |-> RowSeq(ss, id)[i].amount]]

\* a whole checkout applied to the state of its order, without failure
SerialCheckout(s, amount, result) ==
  [status |-> Section42Status(result),
   total |-> amount,
   auths |-> Append(s.auths,
                    <<Section42Outcome(Section42Status(result)), amount>>),
   settled |-> s.settled]

\* a whole settle applied to the state of its order, without failure
SerialSettle(s, amount) ==
  IF s.status # "AUTHORIZED" THEN s
  ELSE [status |-> "SETTLED",
        total |-> s.total,
        auths |-> IF Len(s.auths) = 0 THEN << <<"SUCCESS", s.total>> >>
                  ELSE s.auths,
        settled |-> Append(s.settled, amount)]

\* status, Authorization rows and Settlement rows
Observable(s) == <<s.status, s.auths, s.settled>>

C8_Race(p, q) ==
  /\ p # q
  /\ nreq = 2
  /\ Completed(p, "checkout") /\ Completed(q, "settle")
  /\ req[p].orderId = req[q].orderId
  /\ req[p].resp.code # 500 /\ req[q].resp.code # 500

\* C8 -- a checkout and a settle of the same order, the only two requests,
\* overlapping or not and without storage failure: when both have answered,
\* the order's status, Authorization rows and Settlement rows are those of
\* the checkout followed by the settle or of the settle followed by the
\* checkout.
C8_CheckoutSettleSerializable ==
  \A p, q \in Procs :
    C8_Race(p, q) =>
      LET id == req[p].orderId
          s0 == OrderState(SeedOrders, SeedAuthorizations, SeedSettlements, id)
          final == OrderState(orders, authorizations, settlements, id)
          checkoutFirst ==
            SerialSettle(SerialCheckout(s0, req[p].amount, req[p].result),
                         req[q].amount)
          settleFirst ==
            SerialCheckout(SerialSettle(s0, req[q].amount),
                           req[p].amount, req[p].result)
      IN Observable(final) \in {Observable(checkoutFirst), Observable(settleFirst)}

\* C9 -- no step of a checkout, a settle or a seed-orders call stores the
\* status PENDING: an order that is PENDING after a step was PENDING before
\* it (so neither a new order nor an AUTHORIZED, DECLINED, ERROR or SETTLED
\* one becomes PENDING).
C9_Step ==
  \A i \in 1..Len(orders') :
    orders'[i].status = "PENDING" =>
      StatusOf(orders, orders'[i].order_id) = "PENDING"

C9_NeverBackToPending == [][C9_Step]_vars

\* a checkout has overwritten a SETTLED order and a seed-orders call has
\* overwritten an order
C9_Witness ==
  /\ \E p \in Procs :
       /\ Completed(p, "checkout") /\ req[p].resp.code = 200
       /\ StatusOf(req[p].pre.orders, req[p].orderId) = "AUTHORIZED"
       /\ StatusOf(orders, req[p].orderId) = "ERROR"
  /\ \E p \in Procs :
       /\ req[p].kind = "seed" /\ req[p].i > 1
       /\ StatusOf(orders, "ORD9001") = "AUTHORIZED"

\* the request bodies the claim rejects, read off the JSON value itself
MissingOrEmpty(x) == x = JNull \/ x = JStr("")

NotAPositiveFiniteNumber(x) ==
  \/ x = JNull
  \/ x = JNum(0) \/ x = JNum(0 - 1)
  \/ x = Infinity
  \/ x = JStr("abc") \/ x = JStr("") \/ x = JStr("Infinity")
  \/ x = JBool(FALSE)

C10_BadBody(p) ==
  /\ req[p].kind = "checkout"
  /\ \/ MissingOrEmpty(req[p].body.orderId)
     \/ MissingOrEmpty(req[p].body.customerId)
     \/ NotAPositiveFiniteNumber(req[p].body.amount)

\* C10 -- a checkout whose orderId or customerId is missing or empty, or
\* whose amount is missing or does not denote a finite number greater than
\* 0, is answered 400 at once, and the three tables are as they were when
\* it arrived (no order is upserted, no outcome row is inserted).
C10_CheckoutValidation ==
  \A p \in Procs :
    C10_BadBody(p) =>
      /\ req[p].pc = "done"
      /\ req[p].resp.code = 400
      /\ req[p].result = ""
      /\ TablesAsBefore(p)

\* an amount of 0 with orderId and customerId present is rejected after an
\* earlier request has changed the tables
C10_Witness ==
  \E p \in Procs :
    /\ C10_BadBody(p)
    /\ req[p].body.orderId = JStr("ORD9001")
    /\ req[p].body.customerId = JNum(2)
    /\ req[p].body.amount = JNum(0)
    /\ req[p].resp.error = "Invalid amount"
    /\ orders # SeedOrders


\* C11 -- (requests one after the other) a settle with a valid body for an
\* orderId that has no Order row is answered 404 "Order not found" (500 if
\* the lookup itself fails) and the three tables are as they were: no
\* Order, Authorization or Settlement row is inserted.
C11_UnknownOrder(p) ==
  /\ Completed(p, "settle")
  /\ CountRows(req[p].pre.orders, req[p].orderId) = 0

C11_SettleNotFound ==
  \A p \in Procs :
    C11_UnknownOrder(p) =>
      /\ \/ req[p].resp.code = 404 /\ req[p].resp.error = "Order not found"
         \/ req[p].resp.code = 500
      /\ TablesAsBefore(p)

C11_Witness ==
  \E p \in Procs :
    /\ C11_UnknownOrder(p)
    /\ req[p].orderId = "ORD9001"
    /\ req[p].resp.code = 404

C12_BadBody(p) ==
  /\ req[p].kind = "settle"
  /\ \/ req[p].body = NoBody
     \/ MissingOrEmpty(req[p].body.orderId)
     \/ NotAPositiveFiniteNumber(req[p].body.amount)

\* C12 -- a settle whose orderId is missing or empty (a request without a
\* body has neither field), or whose amount is
\* missing or does not denote a finite number greater than 0, is answered
\* 400 at once: it never reaches the order lookup, whether the order exists
\* or not, and the three tables are as they were when it arrived.
C12_SettleValidation ==
  \A p \in Procs :
    C12_BadBody(p) =>
      /\ req[p].pc = "done"
      /\ req[p].resp.code = 400
      /\ req[p].resp.error \in {"Missing fields", "Invalid amount"}
      /\ TablesAsBefore(p)

\* an amount of 0 for an order that does not exist is rejected with 400
C12_Witness ==
  \E p \in Procs :
    /\ C12_BadBody(p)
    /\ req[p].body.orderId = JStr("ORD9001")
    /\ req[p].body.amount = JNum(0)
    /\ CountRows(orders, "ORD9001") = 0
    /\ req[p].resp.error = "Invalid amount"

\* the table of the claim: result -> order status, authorization outcome,
\* gateway code, gateway message
OutcomeTable(result) ==
  CASE result = "SUCCESS" -> <<"AUTHORIZED", "SUCCESS", "00", "Approved">>
    [] result = "INSUFFICIENT_FUNDS" ->
         <<"DECLINED", "DECLINED", "51", "Insufficient funds">>
    [] result = "INCORRECT_DETAILS" ->
         <<"DECLINED", "DECLINED", "14", "Incorrect card details">>
    [] result = "SERVER_ERROR" ->
         <<"ERROR", "ERROR", "XX", "Authorization server error">>

\* C13 -- (requests one after the other) a checkout that answers 200 has
\* stored, for its outcome, the order status and an Authorization row with
\* the outcome, gateway code and gateway message of the table, and its
\* response carries the four-way result, that status and that outcome.
C13_OutcomeMapping ==
  \A p \in Procs :
    Completed(p, "checkout") /\ req[p].resp.code = 200 =>
      LET row == authorizations[Len(authorizations)]
          line == OutcomeTable(req[p].result)
      IN /\ row.order_id = req[p].orderId
         /\ row.amount = req[p].amount
         /\ <<StatusOf(orders, req[p].orderId), row.outcome,
              row.gateway_code, row.gateway_message>> = line
         /\ req[p].resp.result = req[p].result
         /\ req[p].resp.status = line[1]
         /\ req[p].resp.outcome = line[2]

C13_Witness ==
  \E p \in Procs :
    /\ Completed(p, "checkout") /\ req[p].resp.code = 200
    /\ req[p].resp.result = "INCORRECT_DETAILS"
    /\ authorizations[Len(authorizations)].gateway_code = "14"

C15_UpsertFailed(p) ==
  /\ req[p].kind = "checkout" /\ req[p].pc = "done"
  /\ req[p].resp.code = 500
  /\ req[p].resp.error = "Database write error (orders)"

C15_Aborted ==
  \A p \in Procs : C15_UpsertFailed(p) => TablesAsBefore(p)

C15_FailingUpsert ==
  \A p \in Procs :
    CheckoutUpsertOrder(p, FALSE) =>
      /\ req'[p].pc = "done"
      /\ req'[p].resp.code = 500
      /\ authorizations' = authorizations

\* C15 -- (requests one after the other) the step in which the Order upsert
\* of a checkout fails ends the request with a 500 response and inserts no
\* Authorization row, and when the request has answered so the three tables
\* are as they were when it arrived.
C15_UpsertFailureAborts ==
  [](C15_Aborted) /\ [][C15_FailingUpsert]_vars

\* the upsert of a re-checkout of an existing order has failed
C15_Witness ==
  \E p \in Procs :
    /\ C15_UpsertFailed(p)
    /\ req[p].orderId = "ORD1002"
    /\ req[p].result = "SUCCESS"


\* the ranges of the claim, in hundredths
C14_Label(r) ==
  CASE r \in 0..59 -> "SUCCESS"
    [] r \in 60..76 -> "INSUFFICIENT_FUNDS"
    [] r \in 77..93 -> "INCORRECT_DETAILS"
    [] r \in 94..99 -> "SERVER_ERROR"

C14_Drawn ==
  \A p \in Procs :
    req[p].draw # NoDraw =>
      /\ req[p].result = C14_Label(req[p].draw)
      /\ req[p].result \in {"SUCCESS", "INSUFFICIENT_FUNDS",
                            "INCORRECT_DETAILS", "SERVER_ERROR"}

C14_DrawStep ==
  \A p \in Procs :
    req'[p].draw # NoDraw /\ req'[p] # req[p] /\ req'[p].pc = "co_upsert" =>
      /\ orders' = orders
      /\ authorizations' = authorizations
      /\ settlements' = settlements

\* C14 -- a draw r (hundredths of [0,1)) gives SUCCESS for r < 60,
\* INSUFFICIENT_FUNDS for 60 <= r < 77, INCORRECT_DETAILS for 77 <= r < 94
\* and SERVER_ERROR for r >= 94, always one of the four labels, and the step
\* that draws leaves the three tables as they are.
C14_OutcomeGenerator ==
  [](C14_Drawn) /\ [][C14_DrawStep]_vars

\* a draw on a threshold: 0.60 is the first INSUFFICIENT_FUNDS
C14_Witness ==
  \E p \in Procs :
    /\ req[p].draw = 60
    /\ req[p].result = "INSUFFICIENT_FUNDS"
    /\ req[p].pc = "done"


\* a database call of the request in slot p fails in this step
C16_FailingCall(p) ==
  \/ CheckoutUpsertOrder(p, FALSE)
  \/ CheckoutInsertAuth(p, FALSE)
  \/ SettleLoadOrder(p, FALSE)
  \/ \E randomPart \in RandomParts : SettleFindAuth(p, FALSE, randomPart, 0)
  \/ SettleBackfillAuth(p, FALSE)
  \/ SettleInsertSettlement(p, FALSE)
  \/ SettleUpdateStatus(p, FALSE)
  \/ GetOrderLoad(p, FALSE)
  \/ GetOrderLastAuth(p, FALSE)
  \/ GetOrderLastSettlement(p, FALSE)
  \/ ListOrdersAll(p, FALSE)
  \/ StatsGroupBy(p, FALSE)
  \/ StatsCountAll(p, FALSE)
  \/ StatsSettledTotal(p, FALSE)
  \/ StatsRecent(p, FALSE)

C16_Step ==
  \A p \in Procs :
    C16_FailingCall(p) /\ Len(orders) > 0 =>
      /\ req'[p].pc = "done"
      /\ req'[p].resp.code = 500

\* C16 -- every step of checkout, settle, getOrder, listOrders or stats in
\* which the database call fails ends the request with a 500 response (the
\* store holding at least one order, so that a failed count is not the
\* true count).
C16_FailuresReported == [][C16_Step]_vars

\* a stats request has answered 200
StatsAnswered(p) ==
  /\ req[p].kind = "stats" /\ req[p].pc = "done"
  /\ req[p].resp.code = 200

StatusesOf(os) == {os[i].status : i \in 1..Len(os)}

RECURSIVE SumFirst(_, _)
SumFirst(t, n) == IF n = 0 THEN 0 ELSE SumFirst(t, n - 1) + t[n].amount

\* C17 -- (requests one after the other) a stats response has one totals
\* key per status that has an order, holding the number of orders of that
\* status, and the key ALL holding the number of orders; settled_total is
\* the sum of the amounts of the Settlement rows; on an empty store it is
\* exactly totals = {ALL: 0}, recentOrders = [], settled_total = 0.
C17_StatsTotals ==
  \A p \in Procs :
    StatsAnswered(p) =>
      LET r == req[p].resp IN
      /\ DOMAIN r.totals = StatusesOf(orders) \cup {"ALL"}
      /\ \A st \in StatusesOf(orders) :
           r.totals[st] = Cardinality({i \in 1..Len(orders) : orders[i].status = st})
      /\ r.totals["ALL"] = Len(orders)
      /\ r.settled_total = SumFirst(settlements, Len(settlements))
      /\ Len(orders) = 0 /\ Len(settlements) = 0 =>
           /\ r.totals["ALL"] = 0
           /\ r.recentOrders = <<>>
           /\ r.settled_total = 0

\* row j of os comes before row i in newest-first order: created later, or
\* created in the same second and inserted earlier
Newer(os, j, i) ==
  \/ os[j].created_at > os[i].created_at
  \/ os[j].created_at = os[i].created_at /\ j < i

\* the rowid of the order that row r shows
RowidOf(os, r) == CHOOSE i \in 1..Len(os) : os[i].order_id = r.order_id

\* C18 -- (requests one after the other) recentOrders of a stats response
\* holds min(5, number of orders) rows of the orders table, each order at
\* most once, every order listed before the ones it is newer than, and
\* every order left out is one that all the listed ones are newer than;
\* among orders of equal created_at the one inserted first is the newer.
C18_RecentOrders ==
  \A p \in Procs :
    StatsAnswered(p) =>
      LET r == req[p].resp.recentOrders
          listed == {RowidOf(orders, r[k]) : k \in 1..Len(r)}
      IN /\ Len(r) = IF Len(orders) < 5 THEN Len(orders) ELSE 5
         /\ \A k \in 1..Len(r) :
              /\ \E i \in 1..Len(orders) : orders[i].order_id = r[k].order_id
              /\ r[k] = orders[RowidOf(orders, r[k])]
         /\ \A k, l \in 1..Len(r) :
              k < l => Newer(orders, RowidOf(orders, r[k]), RowidOf(orders, r[l]))
         /\ \A j \in (1..Len(orders)) \ listed :
              \A i \in listed : Newer(orders, i, j)

\* more than five orders, created in two different seconds: the newer ones
\* come first, the older ones follow in insertion order
C18_Witness ==
  \E p \in Procs :
    /\ StatsAnswered(p)
    /\ Len(orders) > 5
    /\ req[p].resp.recentOrders[1].created_at = 1
    /\ req[p].resp.recentOrders[4].created_at = 0
    /\ req[p].resp.recentOrders[5].created_at = 0


\* the row of order id with the greatest timestamp, the last inserted one
\* among those of equal timestamp; NoRow when the order has none
MostRecent(t, id, col) ==
  IF RowsOf(t, id) = {} THEN NoRow
  ELSE t[CHOOSE i \in RowsOf(t, id) :
           \A j \in RowsOf(t, id) :
              \/ t[j][col] < t[i][col]
              \/ t[j][col] = t[i][col] /\ j <= i]

\* C19 -- (requests one after the other, no storage failure) getOrder of an
\* unknown orderId answers 404; of an existing order it answers the order
\* row, lastAuthorization = its Authorization row of greatest created_at,
\* the greatest auth_id among equal ones (null when it has none), and
\* lastSettlement = its most recent Settlement row (null when it has none).
C19_GetOrder ==
  \A p \in Procs :
    Completed(p, "getOrder") =>
      IF CountRows(orders, req[p].orderId) = 0
      THEN req[p].resp.code = 404
      ELSE /\ req[p].resp.code = 200
           /\ req[p].resp.order = SelectOrder(orders, req[p].orderId)
           /\ req[p].resp.lastAuthorization
                = MostRecent(authorizations, req[p].orderId, "created_at")
           /\ req[p].resp.lastSettlement
                = MostRecent(settlements, req[p].orderId, "settled_at")

\* limit and offset as the claim reads them: a natural number, or absent
C20_Limit(x) ==
  CASE x = JNull -> 200
    [] x = JStr("0") -> 0
    [] x = JStr("1") -> 1
    [] x = JStr("2") -> 2

C20_Offset(x) ==
  CASE x = JNull -> 0
    [] x = JStr("1") -> 1
    [] x = JStr("5") -> 5

C20_Listed(p) ==
  /\ req[p].kind = "listOrders" /\ req[p].pc = "done"
  /\ req[p].resp.code = 200
  /\ req[p].body.limit \in {JNull, JStr("0"), JStr("1"), JStr("2")}
  /\ req[p].body.offset \in {JNull, JStr("1"), JStr("5")}

\* the number of orders that come before row i in newest-first order
C20_Before(i) == Cardinality({j \in 1..Len(orders) : Newer(orders, j, i)})

\* C20 -- (requests one after the other) listOrders with limit and offset
\* natural numbers or absent (limit 200, offset 0) answers the orders in
\* newest-first order without the first offset ones and cut to at most
\* limit rows, whatever their status or customer.
C20_ListOrders ==
  \A p \in Procs :
    C20_Listed(p) =>
      LET limit == C20_Limit(req[p].body.limit)
          offset == C20_Offset(req[p].body.offset)
          rest == IF Len(orders) > offset THEN Len(orders) - offset ELSE 0
          rows == req[p].resp.rows
      IN /\ Len(rows) = IF rest < limit THEN rest ELSE limit
         /\ \A k \in 1..Len(rows) :
              /\ rows[k] = orders[RowidOf(orders, rows[k])]
              /\ C20_Before(RowidOf(orders, rows[k])) = offset + k - 1


\* a settle with a valid body on an order that is AUTHORIZED has answered
\* without storage failure
C21_SettledAuthorized(p) ==
  /\ Completed(p, "settle")
  /\ StatusOf(req[p].pre.orders, req[p].orderId) = "AUTHORIZED"
  /\ req[p].resp.code # 500

\* C21 -- (requests one after the other) a settle of an AUTHORIZED order
\* with a finite amount > 0 answers 200 whether or not the amount is the
\* order's total_amount, has added one Settlement row, for that order and
\* with the requested amount, and has left the order's total_amount as it
\* was.
C21_SettleAnyAmount ==
  \A p \in Procs :
    C21_SettledAuthorized(p) =>
      LET before == req[p].pre.settlements IN
      /\ req[p].resp.code = 200
      /\ Len(settlements) = Len(before) + 1
      /\ SubSeq(settlements, 1, Len(before)) = before
      /\ settlements[Len(settlements)].order_id = req[p].orderId
      /\ settlements[Len(settlements)].amount = req[p].amount
      /\ SelectOrder(orders, req[p].orderId).total_amount
           = SelectOrder(req[p].pre.orders, req[p].orderId).total_amount

\* a settlement of less than the order's total
C21_Witness ==
  \E p \in Procs :
    /\ C21_SettledAuthorized(p)
    /\ req[p].resp.code = 200
    /\ req[p].amount < SelectOrder(orders, req[p].orderId).total_amount
    /\ settlements[Len(settlements)].amount = req[p].amount

\* C23 -- in every state reached by checkout, settle and seed-orders calls
\* from the seeded database, every order whose status is SETTLED has at
\* least one Authorization row.
C23_SettledHasAuthorization ==
  \A i \in 1..Len(orders) :
    orders[i].status = "SETTLED" =>
      CountRows(authorizations, orders[i].order_id) >= 1

\* t is kept as a prefix of t2: no row removed or changed
KeptRows(t, t2) ==
  /\ Len(t2) >= Len(t)
  /\ SubSeq(t2, 1, Len(t)) = t

C24_Step ==
  /\ KeptRows(authorizations, authorizations')
  /\ KeptRows(settlements, settlements')
  /\ Len(orders') >= Len(orders)
  /\ \A i \in 1..Len(orders) : orders'[i].order_id = orders[i].order_id

\* C24 -- no step of a checkout, settle or seed-orders call, overlapping or
\* not, removes or changes an existing Authorization or Settlement row or
\* removes an Order row: each table keeps its rows in place, so no row count
\* ever decreases.
C24_AppendOnly == [][C24_Step]_vars

\* a re-checkout of an existing order and a settle have both written
C24_Witness ==
  \E p, q \in Procs :
    /\ Completed(p, "checkout") /\ req[p].resp.code = 200
    /\ CountRows(SeedOrders, req[p].orderId) = 1
    /\ Completed(q, "settle") /\ req[q].resp.code = 200
    /\ Len(authorizations) > Len(SeedAuthorizations)
    /\ Len(settlements) > Len(SeedSettlements)

\* the columns of the Order rows that stay the same in a step
C25_Keeps(cols) ==
  \A i \in 1..Len(orders) :
    /\ i <= Len(orders')
    /\ \A c \in cols : orders'[i][c] = orders[i][c]

\* C25 as stated -- no step of a checkout or settle changes the order_id,
\* customer_id, total_amount or created_at of an existing Order row.
C25_OnlyStatusChanges ==
  [][C25_Keeps({"order_id", "customer_id", "total_amount", "created_at"})]_vars

\* C25 amended -- no step of a checkout or settle changes the order_id or
\* created_at of an existing Order row; a re-checkout overwrites customer_id
\* and total_amount along with status and updated_at, and a settle changes
\* status and updated_at only.
C25_Settle ==
  \A p \in Procs :
    req[p].kind = "settle" /\ req'[p] # req[p] =>
      C25_Keeps({"order_id", "customer_id", "total_amount", "created_at"})

C25_IdAndCreationKept ==
  [][C25_Keeps({"order_id", "created_at"}) /\ C25_Settle]_vars

\* a re-checkout in a later second than the order's creation, with another
\* customer and another amount
C25_Witness ==
  \E p \in Procs :
    /\ Completed(p, "checkout") /\ req[p].resp.code = 200
    /\ CountRows(req[p].pre.orders, req[p].orderId) = 1
    /\ SelectOrder(orders, req[p].orderId).created_at = 0
    /\ SelectOrder(orders, req[p].orderId).updated_at = 1
    /\ SelectOrder(orders, req[p].orderId).customer_id
         # SelectOrder(req[p].pre.orders, req[p].orderId).customer_id
    /\ SelectOrder(orders, req[p].orderId).total_amount
         # SelectOrder(req[p].pre.orders, req[p].orderId).total_amount

C26_Step ==
  /\ settlements' # settlements =>
       \E p \in Procs : req[p].kind = "settle" /\ SettleInsertSettlement(p, TRUE)
  /\ authorizations' # authorizations =>
       \E p \in Procs :
         \/ req[p].kind = "checkout" /\ CheckoutInsertAuth(p, TRUE)
         \/ req[p].kind = "settle" /\ SettleBackfillAuth(p, TRUE)
  /\ Len(orders') # Len(orders) =>
       \E p \in Procs :
         \/ req[p].kind = "checkout" /\ CheckoutUpsertOrder(p, TRUE)
         \/ req[p].kind = "seed" /\ \E ok \in BOOLEAN : SeedOrdersRun(p, ok)
  /\ \A p \in Procs :
       req'[p].kind \in {"stats", "getOrder", "listOrders"} /\ req'[p] # req[p] =>
         /\ orders' = orders
         /\ authorizations' = authorizations
         /\ settlements' = settlements

\* C26 -- a step that adds a Settlement row is the settlement insert of a
\* settle; a step that adds an Authorization row is the authorization
\* insert of a checkout or the backfill of a settle; a step that adds an
\* Order row is the upsert of a checkout or of seed-orders; and no step of
\* stats, getOrder or listOrders changes any of the three tables.
C26_OwnedWrites == [][C26_Step]_vars

\* a stats request has answered after a checkout has written its rows
C26_Witness ==
  /\ StatsAnswered(1)
  /\ TablesAsBefore(1)
  /\ \E j \in 1..Len(hist) : hist[j].kind = "checkout" /\ hist[j].code = 200
  /\ CountRows(orders, "ORD9001") = 1
  /\ CountRows(authorizations, "ORD9001") = 1

\* C27 -- (requests one after the other) a settle that has answered 500 has
\* left the three tables as they were when it arrived: no backfilled
\* Authorization row, no Settlement row, and the order still AUTHORIZED.
C27_FailedSettleLeavesStore ==
  \A p \in Procs :
    Completed(p, "settle") /\ req[p].resp.code = 500 => TablesAsBefore(p)

C28_Step ==
  /\ Len(authorizations') = Len(authorizations) + 1 =>
       authorizations'[Len(authorizations')].amount
         = SelectOrder(orders, authorizations'[Len(authorizations')].order_id).total_amount
  /\ \A p \in Procs :
       /\ CheckoutInsertAuth(p, TRUE) =>
            authorizations'[Len(authorizations')].amount = req[p].amount
       /\ SettleBackfillAuth(p, TRUE) =>
            authorizations'[Len(authorizations')].amount = req[p].total

\* C28 -- the amount of an Authorization row is the total_amount its order
\* has in the step that inserts the row: for a checkout the amount the same
\* checkout stored, for a backfill the stored total_amount the settle read.
C28_AuthorizationAmount == [][C28_Step]_vars

\* C29 -- in every reachable state every Authorization row whose auth_token
\* is not null has outcome SUCCESS.
C29_TokenOnlyOnSuccess ==
  \A i \in 1..Len(authorizations) :
    authorizations[i].auth_token # NoToken =>
      authorizations[i].outcome = "SUCCESS"

\* a backfilled row with a token next to checkout rows of every outcome
C29_Witness ==
  /\ \E i \in 1..Len(authorizations) : authorizations[i].auth_token # NoToken
  /\ \E i \in 1..Len(authorizations) :
       /\ authorizations[i].outcome = "ERROR"
       /\ authorizations[i].gateway_code = "XX"


\* a register request has answered 201
Registered(p) ==
  /\ req[p].kind = "register" /\ req[p].pc = "done"
  /\ req[p].resp.code = 201

\* the customer row of the response is stored as the insert wrote it
C22_RowKept ==
  \A p \in Procs :
    Registered(p) =>
      /\ req[p].resp.ok = TRUE
      /\ Cardinality({i \in 1..Len(customers) :
                        customers[i].customer_id = req[p].resp.customerId}) = 1
      /\ \E i \in 1..Len(customers) :
           customers[i] = CustomerRow(req[p].resp.customerId, req[p].reg)

C22_MailFails ==
  \A p \in Procs :
    RegisterMail(p, FALSE) =>
      /\ customers' = customers
      /\ req'[p].pc = "done"
      /\ req'[p].resp.code = 201
      /\ req'[p].resp.ok = TRUE
      /\ req'[p].resp.customerId = req[p].customerId
      /\ "warning" \in DOMAIN req'[p].resp
      /\ "message" \notin DOMAIN req'[p].resp

\* C22 -- in register, the step in which the verification mail fails after
\* the customer row has been inserted leaves the customers table as it is
\* and answers 201 with ok: true, the customerId of the row and a warning
\* in place of the message; the row of a register that has answered 201 is
\* stored as it was inserted.
C22_MailFailureIsWarning ==
  [](C22_RowKept) /\ [][C22_MailFails]_vars

\* a register has answered with a warning and its row is the fourth customer
C22_Witness ==
  \E p \in Procs :
    /\ Registered(p)
    /\ "warning" \in DOMAIN req[p].resp
    /\ req[p].resp.customerId = 4
    /\ Len(customers) = 4
    /\ customers[4].email = JStr("ann@x.com")


\* slot p holds a checkout or settle request
C30_Accepted(p) == req[p].kind \in {"checkout", "settle"}

\* a request has a response exactly when it has completed, and a step
\* leaves a response as it is unless the slot takes the next request
C30_AnsweredWhenDone ==
  \A p \in Procs :
    C30_Accepted(p) => (req[p].resp # NoResp <=> req[p].pc = "done")

C30_OneResponse ==
  \A p \in Procs :
    C30_Accepted(p) /\ req[p].resp # NoResp =>
      req'[p].resp = req[p].resp \/ (nreq' = nreq + 1 /\ req'[p].pre = Snapshot)

\* (a process that a failed seed-orders statement has ended calls nothing
\* back: the assumption of the claim does not hold for its requests)
C30_Eventually ==
  \A p \in Procs :
    (C30_Accepted(p) /\ req[p].pc # "done")
      ~> \/ C30_Accepted(p) /\ req[p].pc = "done" /\ req[p].resp # NoResp
         \/ ~up

\* C30 -- every database call eventually calling back, every accepted
\* checkout or settle request is eventually answered, whatever path its
\* callback chain takes, and it is answered once: the response is made in
\* the step that completes the request and is not made again.
C30_AlwaysAnswered ==
  /\ [](C30_AnsweredWhenDone)
  /\ [][C30_OneResponse]_vars
  /\ C30_Eventually

\* a settle has answered 500 at its last step (its Settlement row is
\* stored) while a checkout has answered 400 at validation
C30_Witness ==
  \E p, q \in Procs :
    /\ req[p].kind = "settle" /\ req[p].pc = "done" /\ req[p].resp.code = 500
    /\ Len(settlements) > Len(req[p].pre.settlements)
    /\ req[q].kind = "checkout" /\ req[q].pc = "done" /\ req[q].resp.code = 400


\* the Authorization row of order id that was inserted last
LastInserted(id) == RowSeq(authorizations, id)[Len(RowSeq(authorizations, id))]

\* that row agrees with the Order row of id
C31_Agrees(id) ==
  LET o == SelectOrder(orders, id)
      a == LastInserted(id)
  IN /\ Len(RowSeq(authorizations, id)) >= 1
     /\ a.outcome = "SUCCESS" <=> o.status = "AUTHORIZED"
     /\ a.outcome = "DECLINED" <=> o.status = "DECLINED"
     /\ a.outcome = "ERROR" <=> o.status = "ERROR"
     /\ a.amount = o.total_amount

\* C31 -- when every request so far was a checkout of the same order that
\* has answered 200 (so no checkout is in flight and the order was last
\* written by checkout), overlapping or not, the Authorization row of the
\* order that was inserted last agrees with the Order row in outcome and
\* amount.
C31_LastAuthorizationAgrees ==
  \A id \in AllOrderIds : OnlyCheckoutsOf(id) => C31_Agrees(id)

\* no seed-orders call has been made
NoSeedCall ==
  /\ \A p \in Procs : req[p].kind # "seed"
  /\ \A i \in 1..Len(hist) : hist[i].kind # "seed"

SuccessRows(id) ==
  {i \in RowsOf(authorizations, id) : authorizations[i].outcome = "SUCCESS"}

\* C32 -- (requests one after the other) as long as no seed-orders call has
\* been made, no order has more Settlement rows than it has Authorization
\* rows with outcome SUCCESS.
C32_SettlementsWithinSuccesses ==
  NoSeedCall =>
    \A id \in AllOrderIds :
      CountRows(settlements, id) <= Cardinality(SuccessRows(id))

C35_Rows ==
  \A i \in 1..Len(authorizations) :
    /\ authorizations[i].auth_token = NoToken
         <=> authorizations[i].auth_expires_at = NoExpiry
    /\ authorizations[i].gateway_message = "Approved for settlement"
         <=> authorizations[i].auth_token # NoToken

C35_Step ==
  \A p \in Procs :
    /\ CheckoutInsertAuth(p, TRUE) =>
         /\ authorizations'[Len(authorizations')].auth_token = NoToken
         /\ authorizations'[Len(authorizations')].auth_expires_at = NoExpiry
    /\ SettleBackfillAuth(p, TRUE) =>
         /\ authorizations'[Len(authorizations')].auth_token # NoToken
         /\ authorizations'[Len(authorizations')].auth_expires_at # NoExpiry
    /\ (\A i \in 1..Len(authorizations) : authorizations'[i] = authorizations[i])

\* C35 -- every Authorization row has auth_token and auth_expires_at both
\* null or both set, and both set exactly when it is a backfilled row: the
\* row a checkout inserts, of outcome SUCCESS or not, has both null, the row
\* a settle backfills has both set, and no step changes them afterwards.
C35_TokenAndExpiryTogether ==
  [](C35_Rows) /\ [][C35_Step]_vars

\* a checkout row of outcome SUCCESS without a token after a backfilled row
C35_Witness ==
  \E i, j \in 1..Len(authorizations) :
    /\ i < j
    /\ authorizations[i].auth_token # NoToken
    /\ authorizations[i].auth_expires_at = SevenDays
    /\ authorizations[j].outcome = "SUCCESS"
    /\ authorizations[j].gateway_message = "Approved"
    /\ authorizations[j].auth_token = NoToken
    /\ authorizations[j].order_id = authorizations[i].order_id


\* the sum of the per-status counts of a totals object
RECURSIVE SumCounts(_, _)
SumCounts(totals, keys) ==
  IF keys = {} THEN 0
  ELSE LET k == CHOOSE x \in keys : TRUE
       IN totals[k] + SumCounts(totals, keys \ {k})

\* C33 -- in every stats response, also one whose queries overlap with the
\* writes of a checkout, settle or seed-orders call, totals.ALL is the sum
\* of the per-status counts of the same response.
C33_StatsConsistent ==
  \A p \in Procs :
    StatsAnswered(p) =>
      req[p].resp.totals["ALL"]
        = SumCounts(req[p].resp.totals, DOMAIN req[p].resp.totals \ {"ALL"})

\* the order ids of a list of Order rows
Ids(rows) == [k \in 1..Len(rows) |-> rows[k].order_id]

\* slot q holds the only write so far, a re-checkout of an existing order
\* that answered 200, and slot p a read that answered 200
C34_ReadWithRecheckout(p, q, kind) ==
  /\ p # q
  /\ nreq = 2
  /\ Completed(q, "checkout") /\ req[q].resp.code = 200
  /\ CountRows(req[q].pre.orders, req[q].orderId) = 1
  /\ req[p].kind = kind /\ req[p].pc = "done" /\ req[p].resp.code = 200

C34_SameListing ==
  \A p, q \in Procs :
    /\ C34_ReadWithRecheckout(p, q, "listOrders") =>
         Ids(req[p].resp.rows) = Ids(NewestFirst(req[q].pre.orders))
    /\ C34_ReadWithRecheckout(p, q, "stats") =>
         Ids(req[p].resp.recentOrders)
           = Ids(LimitOffset(NewestFirst(req[q].pre.orders), RecentLimit, 0))

C34_Upsert ==
  \A p \in Procs :
    CheckoutUpsertOrder(p, TRUE) /\ CountRows(orders, req[p].orderId) = 1 =>
      /\ Len(orders') = Len(orders)
      /\ \A i \in 1..Len(orders) :
           /\ orders'[i].created_at = orders[i].created_at
           /\ PlaceNewestFirst(orders', i) = PlaceNewestFirst(orders, i)

\* C34 -- the upsert of a re-checkout keeps the created_at of every Order
\* row and with it the place of every order in newest-first order; a
\* listOrders or stats response made with a re-checkout as the only write
\* lists the orders in the order they had before the re-checkout.
C34_PositionKept ==
  [](C34_SameListing) /\ [][C34_Upsert]_vars

\* a listing made after a re-checkout in a later second than the order's
\* creation: updated_at is refreshed, the order is still in second place
C34_Witness ==
  \E p, q \in Procs :
    /\ C34_ReadWithRecheckout(p, q, "listOrders")
    /\ req[p].pre.orders = orders
    /\ req[q].orderId = "ORD1002"
    /\ SelectOrder(orders, "ORD1002").updated_at = 1
    /\ SelectOrder(orders, "ORD1002").created_at = 0
    /\ req[p].resp.rows[2].order_id = "ORD1002"
    /\ req[p].resp.rows[2].updated_at = 1

---------------------------------------------------------------------------
(* Accounts: login, verify-email, register                                 *)

\* the customer rows a login with these credentials is about
AccountsOf(cs, lookup) == FindCustomer(cs, lookup, lookup)

\* C36 (a): a login is answered 200 only with the record of a customer row
\* whose is_verified is 1 and whose password is the one sent.
C36_LoginOnlyVerified ==
  \A p \in Procs :
    (req[p].kind = "login" /\ req[p].pc = "done" /\ req[p].resp.code = 200) =>
      \E i \in AccountsOf(req[p].pre.customers, req[p].reg.lookup) :
        /\ req[p].pre.customers[i].is_verified = 1
        /\ PasswordMatches(req[p].reg.password, req[p].pre.customers[i].password_hash)
        /\ req[p].resp.user.customerId = req[p].pre.customers[i].customer_id

\* C36 (b): a login with the right password for an account that is not yet
\* verified is rejected with 403 and needsVerification (500 when the lookup
\* itself fails).
C36_UnverifiedRejected ==
  \A p \in Procs :
    (/\ req[p].kind = "login" /\ req[p].pc = "done" /\ req[p].reg # NoBody
     /\ req[p].resp.code # 500
     /\ AccountsOf(req[p].pre.customers, req[p].reg.lookup) # {}
     /\ \A i \in AccountsOf(req[p].pre.customers, req[p].reg.lookup) :
          /\ req[p].pre.customers[i].is_verified = 0
          /\ PasswordMatches(req[p].reg.password, req[p].pre.customers[i].password_hash))
    => /\ req[p].resp.code = 403
       /\ req[p].resp.needsVerification = TRUE

\* C36 (c): no step takes a customer row away or turns its is_verified from
\* 1 back to 0.
C36_Step ==
  /\ Len(customers') >= Len(customers)
  /\ \A i \in 1..Len(customers) :
       /\ customers'[i].customer_id = customers[i].customer_id
       /\ customers[i].is_verified = 1 => customers'[i].is_verified = 1

\* C36: login answers 200 only for a verified account, answers 403
\* needsVerification for a registered, unverified account with the right
\* password, and is_verified never returns from 1 to 0.
C36_LoginNeedsVerified ==
  /\ [](C36_LoginOnlyVerified /\ C36_UnverifiedRejected)
  /\ [][C36_Step]_vars

\* an account registered and verified in this run logs in, after an earlier
\* login for the same account was answered 403
C36_Witness ==
  /\ req[1].kind = "login" /\ req[1].pc = "done" /\ req[1].resp.code = 200
  /\ req[1].resp.user.customerId > Len(SeedCustomers)
  /\ \E j \in 1..Len(hist) : hist[j].kind = "verify" /\ hist[j].code = 200

\* the other case of C36: a login with the right password for an account
\* registered in this run and not yet verified, answered 403
C36_RejectedReached ==
  /\ req[1].kind = "login" /\ req[1].pc = "done" /\ req[1].resp.code = 403
  /\ \E i \in AccountsOf(customers, req[1].reg.lookup) :
       /\ customers[i].customer_id > Len(SeedCustomers)
       /\ PasswordMatches(req[1].reg.password, customers[i].password_hash)

\* an earlier verify-email with the same token was answered 200
VerifiedBefore(p) ==
  \E j \in 1..Len(hist) :
    /\ j < Len(hist) \/ req[p].pc # "done"
    /\ hist[j].kind = "verify" /\ hist[j].code = 200
    /\ hist[j].reg = req[p].reg

\* C37 (a): a verify-email answered 200 has set is_verified = 1 and cleared
\* verify_token on the row that held the token, and changed no other row.
C37_FirstUse ==
  \A p \in Procs :
    (req[p].kind = "verify" /\ req[p].pc = "done" /\ req[p].resp.code = 200) =>
      LET was == req[p].pre.customers
          held == FindToken(was, req[p].reg.verify_token) IN
      /\ held # {}
      /\ Len(customers) = Len(was)
      /\ \A i \in 1..Len(was) :
           IF i \in held
           THEN customers[i] = [was[i] EXCEPT !.is_verified = 1,
                                              !.verify_token = NoText]
           ELSE customers[i] = was[i]

\* C37 (b): a verify-email that comes after one answered 200 for the same
\* token is rejected with 400 (500 when the lookup itself fails) and leaves
\* every customer row as it was.
C37_LaterUse ==
  \A p \in Procs :
    (req[p].kind = "verify" /\ req[p].pc = "done" /\ req[p].reg # NoBody
     /\ VerifiedBefore(p))
    => /\ req[p].resp.code \in {400, 500}
       /\ customers = req[p].pre.customers

\* C37: a verification token is single-use: its first verify-email verifies
\* the account and clears the token, every later one with the same token is
\* rejected and changes no customer row.
C37_TokenSingleUse == C37_FirstUse /\ C37_LaterUse

\* the token of an account registered in this run is used twice: 200, then 400
C37_Witness ==
  /\ req[1].kind = "verify" /\ req[1].pc = "done" /\ req[1].resp.code = 400
  /\ VerifiedBefore(1)
  /\ \E i \in 1..Len(customers) :
       /\ customers[i].customer_id > Len(SeedCustomers)
       /\ customers[i].is_verified = 1 /\ customers[i].verify_token = NoText

\* no two customer rows share an email or a username (NULLs apart)
C38_Unique ==
  \A i, j \in 1..Len(customers) :
    i # j => /\ customers[i].email = NoText
                  \/ customers[i].email # customers[j].email
             /\ customers[i].username = NoText
                  \/ customers[i].username # customers[j].username

\* a register that reaches a store holding its email or username, at its
\* lookup or at its insert, adds no row and is answered 409
C38_Step ==
  \A p \in Procs :
    (/\ req[p].kind = "register" /\ req[p].pc \in {"rg_find", "rg_insert"}
     /\ FindCustomer(customers, req[p].reg.email, req[p].reg.username) # {}
     /\ \/ RegisterFindExisting(p, TRUE)
        \/ RegisterInsert(p, TRUE))
    => /\ customers' = customers
       /\ req'[p].resp.code = 409

\* C38: under any interleaving of register requests no two customer rows
\* share a normalized email or username, and a register that matches an
\* existing customer inserts no row and is answered 409.
C38_NoDuplicateAccounts == [](C38_Unique) /\ [][C38_Step]_vars

\* the part of C38 that holds: uniqueness, and no row from a register that
\* matches an existing customer
C38_NoDuplicateRows ==
  /\ [](C38_Unique)
  /\ [][\A p \in Procs :
          (/\ req[p].kind = "register" /\ req[p].pc \in {"rg_find", "rg_insert"}
           /\ FindCustomer(customers, req[p].reg.email, req[p].reg.username) # {}
           /\ RegisterFindExisting(p, TRUE) \/ RegisterInsert(p, TRUE))
          => customers' = customers]_vars


====
